---- MODULE Spec2Model ----
(***************************************************************************)
(* CashLab backend: the statement-import reconciliation pipeline           *)
(* (backend/app/routers/imports.py, backend/app/utils.py), manual          *)
(* transactions (routers/transactions.py) and manual installment groups    *)
(* (routers/installments.py) over the tables of backend/app/models.py.     *)
(*                                                                         *)
(* Text is modelled as a sequence of one-character strings, so that the    *)
(* normalisers of utils.py are computed character by character.  A date    *)
(* in ISO form "YYYY-MM-DD" is the triple <<y, m, d>>.  The SHA-256 digest *)
(* of build_dedupe_hash is taken to be collision free and is represented   *)
(* by the four fields of the key string it digests.                        *)
(***************************************************************************)
EXTENDS Integers, Sequences, FiniteSets, TLC

(***************************************************************************)
(* Bounds of the model.                                                    *)
(***************************************************************************)
MaxRequests == 3 \* requests served in one behaviour
MaxRows == 3     \* rows of one imported file

NULL == -1       \* SQL NULL / Python None in an integer column

Users == {1, 2}
AccountIds == {1}
OptAccount == {NULL} \cup AccountIds
OptCategory == {NULL}

(***************************************************************************)
(* Characters.                                                             *)
(***************************************************************************)
UpperChars == <<"A", "B", "C", "D", "E", "F", "G", "H", "I", "J", "K", "L", "M",
                "N", "O", "P", "Q", "R", "S", "T", "U", "V", "W", "X", "Y", "Z">>
LowerChars == <<"a", "b", "c", "d", "e", "f", "g", "h", "i", "j", "k", "l", "m",
                "n", "o", "p", "q", "r", "s", "t", "u", "v", "w", "x", "y", "z">>
DigitChars == <<"0", "1", "2", "3", "4", "5", "6", "7", "8", "9">>

Range(s) == {s[i] : i \in DOMAIN s}

IsSpace(c) == c \in {" ", "\t"}

\* str.lower() on one character
LowerOf == [c \in Range(UpperChars) |->
               LowerChars[CHOOSE i \in DOMAIN UpperChars : UpperChars[i] = c]]

LowerChar(c) ==
    IF c \in DOMAIN LowerOf THEN LowerOf[c]
    ELSE IF c = "Ç" THEN "ç"
    ELSE IF c = "É" THEN "é"
    ELSE c

\* str.lower()
Lower(s) == [i \in DOMAIN s |-> LowerChar(s[i])]

\* NFKD decomposition followed by encode("ascii", "ignore"): the base letter
\* of an accented letter is kept, any other non-ASCII character is dropped.
AsciiFold(c) ==
    IF c \in {"ç"} THEN <<"c">>
    ELSE IF c \in {"Ç"} THEN <<"C">>
    ELSE IF c \in {"ã", "á"} THEN <<"a">>
    ELSE IF c \in {"é"} THEN <<"e">>
    ELSE IF c \in {"É"} THEN <<"E">>
    ELSE IF c \in {"€"} THEN <<>>
    ELSE <<c>>

IsAsciiAlnum(c) == c \in Range(UpperChars) \cup Range(LowerChars) \cup Range(DigitChars)

\* [A-Za-zÀ-ÿ] of parse_amount_to_cents
IsLetter(c) ==
    c \in Range(UpperChars) \cup Range(LowerChars) \cup {"ç", "Ç", "ã", "á", "é", "É"}

\* sub in s (Python substring test)
Contains(sub, s) ==
    \E i \in 0..(Len(s) - Len(sub)) :
        \A j \in 1..Len(sub) : s[i + j] = sub[j]

\* " ".join(s.split()): whitespace runs collapse to one space, ends trimmed
SplitJoin(s) ==
    LET keep(i) == \/ ~IsSpace(s[i])
                   \/ /\ i > 1
                      /\ ~IsSpace(s[i - 1])
                      /\ \E j \in (i + 1)..Len(s) : ~IsSpace(s[j])
        kept == SelectSeq([i \in 1..Len(s) |-> i], keep)
    IN  [k \in 1..Len(kept) |-> IF IsSpace(s[kept[k]]) THEN " " ELSE s[kept[k]]]

normalize_description(value) == SplitJoin(value)

normalize_header(value) ==
    LET folded[i \in 0..Len(value)] ==
            IF i = 0 THEN <<>> ELSE folded[i - 1] \o AsciiFold(value[i])
        text == folded[Len(value)]
        spaced == [i \in DOMAIN text |-> IF IsAsciiAlnum(text[i]) THEN text[i] ELSE " "]
    IN  SplitJoin(Lower(spaced))

(***************************************************************************)
(* Dates.                                                                  *)
(***************************************************************************)
IsLeap(year) == (year % 4 = 0 /\ year % 100 # 0) \/ year % 400 = 0

DaysInMonth(year, month) ==
    <<31, IF IsLeap(year) THEN 29 ELSE 28, 31, 30, 31, 30, 31, 31, 30, 31, 30, 31>>[month]

IsDate(y, m, d) ==
    /\ y \in 1000..9999
    /\ m \in 1..12
    /\ d \in 1..DaysInMonth(y, m)

\* A cell is a record with a field form.  Form "num3" is the text
\* a sep b sep c  of three numbers; no other form of cell reads as a date.
\* DATE_FORMATS in order; the first format that parses wins.
DATE_FORMATS == <<"%Y-%m-%d", "%d/%m/%Y", "%d-%m-%Y", "%m/%d/%Y", "%d.%m.%Y">>

strptime(raw, fmt) ==
    IF raw.form # "num3" THEN <<>>
    ELSE IF fmt = "%Y-%m-%d"
         THEN IF raw.sep = "-" /\ IsDate(raw.a, raw.b, raw.c) THEN <<raw.a, raw.b, raw.c>> ELSE <<>>
    ELSE IF fmt = "%d/%m/%Y"
         THEN IF raw.sep = "/" /\ IsDate(raw.c, raw.b, raw.a) THEN <<raw.c, raw.b, raw.a>> ELSE <<>>
    ELSE IF fmt = "%d-%m-%Y"
         THEN IF raw.sep = "-" /\ IsDate(raw.c, raw.b, raw.a) THEN <<raw.c, raw.b, raw.a>> ELSE <<>>
    ELSE IF fmt = "%m/%d/%Y"
         THEN IF raw.sep = "/" /\ IsDate(raw.c, raw.a, raw.b) THEN <<raw.c, raw.a, raw.b>> ELSE <<>>
    ELSE IF raw.sep = "." /\ IsDate(raw.c, raw.b, raw.a) THEN <<raw.c, raw.b, raw.a>> ELSE <<>>

\* Result: [ok |-> TRUE, value |-> ISO date] or [ok |-> FALSE, error |-> message].
\* datetime.fromisoformat accepts none of the texts the formats reject here.
normalize_date(raw) ==
    LET hits == {i \in DOMAIN DATE_FORMATS : strptime(raw, DATE_FORMATS[i]) # <<>>}
    IN  IF hits # {}
        THEN [ok |-> TRUE,
              value |-> strptime(raw, DATE_FORMATS[CHOOSE i \in hits : \A j \in hits : i <= j])]
        ELSE [ok |-> FALSE, error |-> [kind |-> "Invalid isoformat string", cell |-> raw]]

add_months(iso_date, months) ==
    LET m0 == iso_date[2] - 1 + months
        year == iso_date[1] + (m0 \div 12)
        month == (m0 % 12) + 1
        day == IF iso_date[3] < DaysInMonth(year, month) THEN iso_date[3] ELSE DaysInMonth(year, month)
    IN  <<year, month, day>>

(***************************************************************************)
(* Amounts.                                                                *)
(***************************************************************************)
Abs(n) == IF n < 0 THEN -n ELSE n

DebitTokens == {<<"d", "e", "b", "i", "t", "o">>, <<"d", "é", "b", "i", "t", "o">>,
                <<"d", "e", "b", "i", "t">>, <<"d", "r">>}
CreditTokens == {<<"c", "r", "e", "d", "i", "t", "o">>, <<"c", "r", "é", "d", "i", "t", "o">>,
                 <<"c", "r", "e", "d", "i", "t">>, <<"c", "r">>}

\* An amount cell is an int (form "int"), a float with two decimals (form
\* "float", its value in hundredths), or the text (form "amount")
\*   [R$] lead units [dec frac] trail [words]
\* with lead "+", "-" or "", trail "-" or "", dec "." or "," or "" (no
\* fraction), frac two digits, digits FALSE when the text has no number at all,
\* and words the letters of the cell.  Any other cell is not numeric.
\* Result: [ok |-> TRUE, value |-> cents] or [ok |-> FALSE, error |-> message].
parse_amount_to_cents(value) ==
    IF value.form = "int" THEN [ok |-> TRUE, value |-> value.v]
    ELSE IF value.form = "float" THEN [ok |-> TRUE, value |-> value.hundredths]
    ELSE IF value.form # "amount"
    THEN [ok |-> FALSE, error |-> [kind |-> "could not convert string to float", cell |-> value]]
    ELSE
    LET lower == Lower(value.words)
        neg0 == \E t \in DebitTokens : Contains(t, lower)
        pos0 == \E t \in CreditTokens : Contains(t, lower)
        \* letters are removed; what is left of the words is not numeric
        residue == SelectSeq(value.words, LAMBDA c : ~IsLetter(c) /\ ~IsSpace(c))
        neg1 == neg0 \/ value.trail = "-"
        pos1 == pos0 \/ (value.lead = "+")
        neg2 == neg1 \/ (value.lead = "-")
        magnitude == value.units * 100 + (IF value.dec = "" THEN 0 ELSE value.frac)
        cents == IF value.lead = "-" THEN -magnitude ELSE magnitude
    IN  IF residue # <<>> \/ ~value.digits
        THEN [ok |-> FALSE, error |-> [kind |-> "could not convert string to float", cell |-> value]]
        ELSE IF neg2 /\ cents > 0 THEN [ok |-> TRUE, value |-> -cents]
        ELSE IF pos1 /\ cents < 0 THEN [ok |-> TRUE, value |-> -cents]
        ELSE [ok |-> TRUE, value |-> cents]

(***************************************************************************)
(* Dedupe key.                                                             *)
(***************************************************************************)
\* str(account_id or "none")
account_scope(account_id) == IF account_id = NULL \/ account_id = 0 THEN 0 ELSE account_id

build_dedupe_hash(tx_date, description, amount_cents, scope) ==
    <<tx_date, Lower(normalize_description(description)), amount_cents, scope>>

(***************************************************************************)
(* Installment markers in a description (utils.py).                        *)
(***************************************************************************)
IsDigit(c) == c \in Range(DigitChars)

\* int() of one digit
DigitValue(c) == (CHOOSE i \in DOMAIN DigitChars : DigitChars[i] = c) - 1

\* \s* from position i: the position of the first character that is no space
SkipSpaces(s, i) ==
    LET stops == {j \in i..Len(s) : ~IsSpace(s[j])}
    IN  IF stops = {} THEN Len(s) + 1 ELSE CHOOSE j \in stops : \A k \in stops : j <= k

\* \d{1,2} at position i: the number of digits taken (0: no match)
DigitsAt(s, i) ==
    IF i > Len(s) \/ ~IsDigit(s[i]) THEN 0
    ELSE IF i + 1 <= Len(s) /\ IsDigit(s[i + 1]) THEN 2
    ELSE 1

\* int() of the n digits at position i
NumberAt(s, i, n) ==
    IF n = 2 THEN 10 * DigitValue(s[i]) + DigitValue(s[i + 1]) ELSE DigitValue(s[i])

\* The literal w at position i, letters compared without case
LiteralAt(s, i, w) ==
    /\ i + Len(w) - 1 <= Len(s)
    /\ \A j \in 1..Len(w) : LowerChar(s[i + j - 1]) = w[j]

NoMatch == [ok |-> FALSE, last |-> 0, current |-> 0, total |-> 0]

\* \(?\s*parcela\s*(\d{1,2})\s*de\s*(\d{1,2})\s*\)? matched at position i
MatchParcela(s, i) ==
    LET a == IF i <= Len(s) /\ s[i] = "(" THEN i + 1 ELSE i
        b == SkipSpaces(s, a)
        c == SkipSpaces(s, b + 7)
        n1 == DigitsAt(s, c)
        d == SkipSpaces(s, c + n1)
        e == SkipSpaces(s, d + 2)
        n2 == DigitsAt(s, e)
        f == SkipSpaces(s, e + n2)
        g == IF f <= Len(s) /\ s[f] = ")" THEN f ELSE f - 1
    IN  IF /\ LiteralAt(s, b, <<"p", "a", "r", "c", "e", "l", "a">>)
           /\ n1 > 0
           /\ LiteralAt(s, d, <<"d", "e">>)
           /\ n2 > 0
        THEN [ok |-> TRUE, last |-> g, current |-> NumberAt(s, c, n1),
              total |-> NumberAt(s, e, n2)]
        ELSE NoMatch

\* \(\s*(\d{1,2})\s*/\s*(\d{1,2})\s*\) matched at position i
MatchSlash(s, i) ==
    LET b == SkipSpaces(s, i + 1)
        n1 == DigitsAt(s, b)
        c == SkipSpaces(s, b + n1)
        d == SkipSpaces(s, c + 1)
        n2 == DigitsAt(s, d)
        e == SkipSpaces(s, d + n2)
    IN  IF /\ i <= Len(s) /\ s[i] = "("
           /\ n1 > 0
           /\ c <= Len(s) /\ s[c] = "/"
           /\ n2 > 0
           /\ e <= Len(s) /\ s[e] = ")"
        THEN [ok |-> TRUE, last |-> e, current |-> NumberAt(s, b, n1),
              total |-> NumberAt(s, d, n2)]
        ELSE NoMatch

INSTALLMENT_PATTERNS == <<"parcela", "slash">>

MatchAt(pattern, s, i) ==
    IF pattern = "parcela" THEN MatchParcela(s, i) ELSE MatchSlash(s, i)

\* pattern.search(text): the leftmost match
PatternSearch(pattern, s) ==
    LET hits == {i \in 1..Len(s) : MatchAt(pattern, s, i).ok}
    IN  IF hits = {} THEN NoMatch
        ELSE MatchAt(pattern, s, CHOOSE i \in hits : \A j \in hits : i <= j)

\* pattern.sub("", text) from position from on: every match is removed
RECURSIVE PatternSub(_, _, _)
PatternSub(pattern, s, from) ==
    LET hits == {i \in from..Len(s) : MatchAt(pattern, s, i).ok}
        i == CHOOSE h \in hits : \A j \in hits : h <= j
    IN  IF hits = {} THEN SubSeq(s, from, Len(s))
        ELSE SubSeq(s, from, i - 1) \o PatternSub(pattern, s, MatchAt(pattern, s, i).last + 1)

\* str.strip(chars)
StripChars(s, chars) ==
    LET keep == {i \in DOMAIN s : s[i] \notin chars}
    IN  IF keep = {} THEN <<>>
        ELSE SubSeq(s, CHOOSE i \in keep : \A j \in keep : i <= j,
                    CHOOSE i \in keep : \A j \in keep : i >= j)

NoInstallment == [found |-> FALSE, base_description |-> <<>>, current |-> 0, total |-> 0]

\* The marker of the first pattern that matches, or None
extract_installment_info(description) ==
    LET text == normalize_description(description)
        matching == SelectSeq(INSTALLMENT_PATTERNS, LAMBDA p : PatternSearch(p, text).ok)
        pattern == matching[1]
        match == PatternSearch(pattern, text)
        base == StripChars(normalize_description(PatternSub(pattern, text, 1)), {" ", "-", "/"})
    IN  IF matching = <<>> THEN NoInstallment
        ELSE IF match.total <= 1 \/ match.current < 1 \/ match.current > match.total
        THEN NoInstallment
        ELSE [found |-> TRUE, base_description |-> IF base = <<>> THEN text ELSE base,
              current |-> match.current, total |-> match.total]

(***************************************************************************)
(* Header inference and row mapping.                                       *)
(***************************************************************************)
DateCandidates ==
    {<<"d", "a", "t", "a">>,
     <<"d", "a", "t", "e">>,
     <<"d", "a", "t", "a", " ", "c", "o", "m", "p", "r", "a">>,
     <<"d", "a", "t", "a", " ", "l", "a", "n", "c", "a", "m", "e", "n", "t", "o">>,
     <<"d", "a", "t", "a", " ", "t", "r", "a", "n", "s", "a", "c", "a", "o">>,
     <<"t", "r", "a", "n", "s", "a", "c", "t", "i", "o", "n", " ", "d", "a", "t", "e">>,
     <<"p", "o", "s", "t", "i", "n", "g", " ", "d", "a", "t", "e">>,
     <<"c", "o", "m", "p", "e", "t", "e", "n", "c", "i", "a">>}

DescriptionCandidates ==
    {<<"d", "e", "s", "c", "r", "i", "c", "a", "o">>,
     <<"d", "e", "s", "c", "r", "i", "p", "t", "i", "o", "n">>,
     <<"h", "i", "s", "t", "o", "r", "i", "c", "o">>,
     <<"l", "a", "n", "c", "a", "m", "e", "n", "t", "o">>,
     <<"e", "s", "t", "a", "b", "e", "l", "e", "c", "i", "m", "e", "n", "t", "o">>,
     <<"m", "e", "r", "c", "h", "a", "n", "t">>,
     <<"d", "e", "t", "a", "l", "h", "e", "s">>,
     <<"t", "e", "x", "t", "o">>}

ValueCandidates ==
    {<<"v", "a", "l", "o", "r">>,
     <<"v", "a", "l", "u", "e">>,
     <<"a", "m", "o", "u", "n", "t">>,
     <<"v", "a", "l", "o", "r", " ", "r", "s">>,
     <<"t", "o", "t", "a", "l">>,
     <<"p", "r", "e", "c", "o">>,
     <<"p", "r", "i", "c", "e">>,
     <<"v", "a", "l", "o", "r", " ", "f", "i", "n", "a", "l">>,
     <<"v", "a", "l", "o", "r", " ", "t", "r", "a", "n", "s", "a", "c", "a", "o">>}

CategoryCandidates ==
    {<<"c", "a", "t", "e", "g", "o", "r", "i", "a">>,
     <<"c", "a", "t", "e", "g", "o", "r", "y">>,
     <<"t", "i", "p", "o">>,
     <<"s", "e", "g", "m", "e", "n", "t", "o">>}

NoKey == <<>>      \* None (or "", just as falsy) as a header name

\* A row is the dict of one parsed line: a sequence of [h |-> header, v |-> cell]
\* in column order, with distinct headers.
\* keys = {normalize_header(str(k)): k for k in row.keys()}: the position of a
\* normalised header is that of its first column, its value the last column's.
header_keys(row) ==
    LET norm == [i \in DOMAIN row |-> normalize_header(row[i].h)]
        firsts == SelectSeq([i \in DOMAIN row |-> i],
                            LAMBDA i : \A j \in 1..(i - 1) : norm[j] # norm[i])
    IN  [k \in DOMAIN firsts |->
            LET last == CHOOSE j \in DOMAIN row :
                            /\ norm[j] = norm[firsts[k]]
                            /\ \A l \in DOMAIN row : norm[l] = norm[j] => l <= j
            IN  [norm |-> norm[firsts[k]], original |-> row[last].h]]

\* Variant: exact matches only, without the substring pass
find_header_key_exact_only(headers, candidates) ==
    LET normalized_candidates == {normalize_header(item) : item \in candidates}
        exact == {i \in DOMAIN headers : headers[i].norm \in normalized_candidates}
        First(S) == CHOOSE i \in S : \A j \in S : i <= j
    IN  IF exact # {} THEN headers[First(exact)].original
        ELSE NoKey

find_header_key(headers, candidates) ==
    LET normalized_candidates == {normalize_header(item) : item \in candidates}
        exact == {i \in DOMAIN headers : headers[i].norm \in normalized_candidates}
        partial == {i \in DOMAIN headers :
                        \E candidate \in normalized_candidates : Contains(candidate, headers[i].norm)}
        First(S) == CHOOSE i \in S : \A j \in S : i <= j
    IN  IF exact # {} THEN headers[First(exact)].original
        ELSE IF partial # {} THEN headers[First(partial)].original
        ELSE NoKey

EmptyCell == [form |-> "words", text |-> <<>>]

\* row.get(key, default)
RowGet(row, key, default) ==
    IF \E i \in DOMAIN row : row[i].h = key
    THEN row[CHOOSE i \in DOMAIN row : row[i].h = key].v
    ELSE default

\* str(cell) as a description: free text is itself; any other cell is its
\* own text, kept as one token (it holds no whitespace).
CellText(cell) == IF cell.form = "words" THEN cell.text ELSE <<ToString(cell)>>

NoMapping == [date |-> NoKey, description |-> NoKey, value |-> NoKey, category |-> NoKey, given |-> FALSE]

\* The keys map_row infers from the headers when no mapping is given
infer_mapping(headers) ==
    [date |-> find_header_key(headers, DateCandidates),
     description |-> find_header_key(headers, DescriptionCandidates),
     value |-> find_header_key(headers, ValueCandidates),
     category |-> find_header_key(headers, CategoryCandidates),
     given |-> FALSE]

\* The cells of a row under the column keys, normalised
map_columns(row, keys) ==
    LET d == normalize_date(RowGet(row, keys.date, EmptyCell))
        a == parse_amount_to_cents(RowGet(row, keys.value, [form |-> "int", v |-> 0]))
    IN  IF keys.date = NoKey \/ keys.description = NoKey \/ keys.value = NoKey
        THEN [ok |-> FALSE, error |-> [kind |-> "mapping_not_found", cell |-> EmptyCell]]
        ELSE IF ~d.ok THEN [ok |-> FALSE, error |-> d.error]
        ELSE IF ~a.ok THEN [ok |-> FALSE, error |-> a.error]
        ELSE [ok |-> TRUE,
              date |-> d.value,
              description |->
                  normalize_description(CellText(RowGet(row, keys.description, EmptyCell))),
              amount_cents |-> a.value,
              category |-> IF keys.category # NoKey
                           THEN normalize_description(
                                    CellText(RowGet(row, keys.category, EmptyCell)))
                           ELSE <<>>]

\* Result: [ok |-> TRUE, date, description, amount_cents, category] or
\* [ok |-> FALSE, error |-> message]; category <<>> stands for None or "".
map_row(row, mapping) ==
    map_columns(row, IF mapping.given THEN mapping ELSE infer_mapping(header_keys(row)))

(***************************************************************************)
(* Inputs.                                                                 *)
(***************************************************************************)
H_Data == <<"D", "a", "t", "a">>
H_Descricao == <<"D", "e", "s", "c", "r", "i", "c", "a", "o">>
H_Valor == <<"V", "a", "l", "o", "r">>
H_Categoria == <<"C", "a", "t", "e", "g", "o", "r", "i", "a">>
H_Obs == <<"O", "b", "s">>
H_DataLancamento == <<"D", "a", "t", "a", " ", "L", "a", "n", "ç", "a", "m", "e", "n", "t", "o">>
H_Estabelecimento == <<"E", "s", "t", "a", "b", "e", "l", "e", "c", "i", "m", "e", "n", "t", "o">>
H_ValorRS == <<"V", "a", "l", "o", "r", " ", "(", "R", "$", ")">>
H_Date == <<"D", "a", "t", "e">>
H_Description == <<"D", "e", "s", "c", "r", "i", "p", "t", "i", "o", "n">>
H_Amount == <<"A", "m", "o", "u", "n", "t">>

Words(text) == [form |-> "words", text |-> text]
DateText(a, sep, b, c) == [form |-> "num3", a |-> a, sep |-> sep, b |-> b, c |-> c]
AmountText(lead, units, dec, frac, trail, words) ==
    [form |-> "amount", lead |-> lead, units |-> units, dec |-> dec, frac |-> frac,
     trail |-> trail, words |-> words, digits |-> TRUE]

D_Pao == <<"P", "a", "o">>
D_pao == <<" ", "p", "a", "o">>
D_Cha == <<"C", "h", "a">>
D_Gas == <<"G", "a", "s">>

Row(date, desc, value) ==
    <<[h |-> H_Data, v |-> date], [h |-> H_Descricao, v |-> desc], [h |-> H_Valor, v |-> value]>>

\* 2026-02-01,Pao,-12.34
RowPao == Row(DateText(2026, "-", 2, 1), Words(D_Pao), AmountText("-", 12, ".", 34, "", <<>>))
\* 23/02/2026,Cha,"45,90 DR"
RowCha == Row(DateText(23, "/", 2, 2026), Words(D_Cha), AmountText("", 45, ",", 90, "", <<"D", "R">>))
\* invalid,Gas,-12.34
RowBadDate == Row(Words(<<"i", "n", "v", "a", "l", "i", "d">>), Words(D_Gas),
                  AmountText("-", 12, ".", 34, "", <<>>))
\* a line whose date column has a header no candidate matches
RowNoDateColumn ==
    <<[h |-> H_Obs, v |-> DateText(2026, "-", 2, 1)], [h |-> H_Descricao, v |-> Words(D_Gas)],
      [h |-> H_Valor, v |-> AmountText("-", 12, ".", 34, "", <<>>)]>>

\* 2026-02-10,Tv (Parcela 01 de 04),-100.00
RowParcela ==
    Row(DateText(2026, "-", 2, 10),
        Words(<<"T", "v", " ", "(", "P", "a", "r", "c", "e", "l", "a", " ", "0", "1", " ",
                "d", "e", " ", "0", "4", ")">>),
        AmountText("-", 100, ".", 0, "", <<>>))
\* 2026-02-10,Gas (10/12),-50.00
RowSlash ==
    Row(DateText(2026, "-", 2, 10),
        Words(<<"G", "a", "s", " ", "(", "1", "0", "/", "1", "2", ")">>),
        AmountText("-", 50, ".", 0, "", <<>>))

\* The headers of a bank export in Portuguese and of one in English, by
\* logical field (date, description, amount)
PtHeaders == <<H_DataLancamento, H_Estabelecimento, H_ValorRS>>
EnHeaders == <<H_Date, H_Description, H_Amount>>
D_Sal == <<"S", "a", "l">>

\* The cells of a line by logical field:
\* 23/02/2026,Cha,"45,90 DR"; 24/02/2026,Sal,"5000,00 CR"; 2026-02-01,Pao,-12.34;
\* invalid,Gas,-12.34
C_Cha == <<DateText(23, "/", 2, 2026), Words(D_Cha), AmountText("", 45, ",", 90, "", <<"D", "R">>)>>
C_Sal == <<DateText(24, "/", 2, 2026), Words(D_Sal), AmountText("", 5000, ",", 0, "", <<"C", "R">>)>>
C_Pao == <<DateText(2026, "-", 2, 1), Words(D_Pao), AmountText("-", 12, ".", 34, "", <<>>)>>
C_Bad == <<Words(<<"i", "n", "v", "a", "l", "i", "d">>), Words(D_Gas), AmountText("-", 12, ".", 34, "", <<>>)>>
LocaleCells == {C_Cha, C_Sal, C_Pao, C_Bad}

\* The orders of the columns in a file: date first, or amount first
ColumnOrders == {<<1, 2, 3>>, <<3, 2, 1>>}

\* The line holding cells under the headers hs, its columns in the given order
LocaleRow(hs, cells, order) == [i \in 1..3 |-> [h |-> hs[order[i]], v |-> cells[order[i]]]]

LocaleRows ==
    {LocaleRow(hs, cells, order) :
        hs \in {PtHeaders, EnHeaders}, cells \in LocaleCells, order \in ColumnOrders}

\* The words of an amount cell: none, a debit marker or a credit marker
AmountWords ==
    {<<>>, <<"D", "R">>, <<"C", "R">>, <<"D", "é", "b", "i", "t", "o">>,
     <<"C", "r", "e", "d", "i", "t">>}

\* Amount texts such as 45,00  -45,00  45,00-  +45,00 DR  0,00- CR
AmountCells ==
    {AmountText(lead, units, ",", 0, trail, words) :
        lead \in {"", "+", "-"}, units \in {0, 45}, trail \in {"", "-"}, words \in AmountWords}

\* 2026-02-01,Pao,<cell>
AmountRows == {Row(DateText(2026, "-", 2, 1), Words(D_Pao), cell) : cell \in AmountCells}

\* 2026-02-01,Pao,-12.34,<name> under Data,Descricao,Valor,Categoria
N_Bar == <<"B", "a", "r">>
N_bar == <<"b", "a", "r">>
N_Luz == <<"L", "u", "z">>
CategoryRow(name) == RowPao \o <<[h |-> H_Categoria, v |-> Words(name)]>>
CategoryRows == {CategoryRow(N_bar), CategoryRow(N_Luz)}

\* 23/02/2026,Cha,"45,90 DR" under Data Lançamento,Obs,Valor: no header is a
\* description candidate, and 'data lancamento' contains one
RowSharedHeader ==
    <<[h |-> H_DataLancamento, v |-> C_Cha[1]], [h |-> H_Obs, v |-> C_Cha[2]],
      [h |-> H_Valor, v |-> C_Cha[3]]>>

RowSet ==
    {RowPao, RowCha, RowBadDate, RowNoDateColumn, RowParcela, RowSlash, RowSharedHeader}
        \cup LocaleRows \cup AmountRows \cup CategoryRows
Mappings == {NoMapping}

\* map_row over the rows and mappings of the model, tabulated once
Normalized == [r \in RowSet, m \in Mappings |-> map_row(r, m)]

F_csv == <<"f", ".", "c", "s", "v">>
F_xlsx == <<"F", ".", "X", "L", "S", "X">>
FileNames == {F_csv}

\* The bytes of a file are the rows the parser reads from them, or Corrupt
\* when the parser raises (not a workbook, wrong password, no delimiter found).
Corrupt == [readable |-> FALSE, rows |-> <<>>]
RowSeqs ==
    {rows \in {<<RowPao>>,
               <<RowPao, RowPao>>,
               <<RowPao, RowCha>>,
               <<RowBadDate, RowNoDateColumn>>,
               <<RowBadDate, RowPao, RowPao>>,
               <<RowNoDateColumn, RowCha, RowBadDate, RowPao>>} : Len(rows) <= MaxRows}
FileContents == {[readable |-> TRUE, rows |-> rows] : rows \in RowSeqs} \cup {Corrupt}

\* The form field mapping_json: absent (or empty), or a text that is not JSON
AbsentJson == [given |-> FALSE, wellformed |-> TRUE, value |-> NoMapping]
MalformedJson == [given |-> TRUE, wellformed |-> FALSE, value |-> NoMapping]

\* The uploads: every file without a mapping, two files with a broken one
Uploads ==
    {[content |-> c, mapping_json |-> AbsentJson] : c \in FileContents}
        \cup {[content |-> c, mapping_json |-> MalformedJson] :
                  c \in {Corrupt, [readable |-> TRUE, rows |-> <<RowPao, RowCha>>]}}

\* The uploads of the requests served next to the manual operations
LedgerUploads ==
    {[content |-> [readable |-> TRUE, rows |-> rows], mapping_json |-> AbsentJson] :
        rows \in {<<RowPao, RowCha>>, <<RowBadDate, RowPao, RowPao>>}}
        \cup {[content |-> Corrupt, mapping_json |-> AbsentJson],
               [content |-> [readable |-> TRUE, rows |-> <<RowPao, RowCha>>],
                mapping_json |-> MalformedJson]}

PayDates == {<<2026, 2, 1>>}
PayDescriptions == {D_pao}
PayAmounts == {-1234, 1234}

\* TransactionIn and PendingReviewResolveIn
Payloads ==
    [date : PayDates, description : PayDescriptions, amount_cents : PayAmounts,
     category_id : OptCategory, account_id : OptAccount]

\* InstallmentGroupIn; NULL stands for an absent total / per-installment amount
GroupPayload(total_cents, amount_per_installment_cents, installments, account_id) ==
    [start_date |-> <<2026, 1, 31>>, base_description |-> D_Gas,
     total_cents |-> total_cents,
     amount_per_installment_cents |-> amount_per_installment_cents,
     installments |-> installments, interval_months |-> 1,
     account_id |-> account_id, category_id |-> NULL]
GroupPayloads ==
    {GroupPayload(-101, NULL, 2, NULL), GroupPayload(NULL, 50, 2, 1),
     GroupPayload(-101, NULL, 0, NULL), GroupPayload(NULL, NULL, 2, NULL)}

(***************************************************************************)
(* The store (models.py) and the last response.                            *)
(***************************************************************************)
VARIABLES
    txs,        \* table transactions: a set of rows
    imports,    \* table imports: imports[id] is the ImportJob with that id
    items,      \* table import_review_items: items[id]
    groups,     \* table installment_groups: a set of rows
    categories, \* table categories: a set of rows
    resp,       \* the request last served and its response
    served,     \* number of requests served so far
    sessions    \* sessions[p]: the open import of worker process p, if any

store == <<txs, imports, items, groups, categories>>
vars == <<txs, imports, items, groups, categories, resp, served, sessions>>

Max(S) == CHOOSE x \in S : \A y \in S : y <= x

\* Integer primary key of the next inserted row
NextId(rows) == IF rows = {} THEN 1 ELSE Max({r.id : r \in rows}) + 1

\* UniqueConstraint("user_id", "account_id", "dedupe_hash"): rows whose
\* account_id is NULL never conflict (NULLs are distinct in a unique index).
UniqueViolation(rows, tx) ==
    /\ tx.account_id # NULL
    /\ \E t \in rows :
          /\ t.id # tx.id
          /\ t.user_id = tx.user_id
          /\ t.account_id = tx.account_id
          /\ t.dedupe_hash = tx.dedupe_hash

Transaction(id, user_id, date, description, amount_cents, category_id, account_id, source, import_id, dedupe_hash) ==
    [id |-> id, user_id |-> user_id, date |-> date, description |-> description,
     amount_cents |-> amount_cents, category_id |-> category_id, account_id |-> account_id,
     source |-> source, import_id |-> import_id, dedupe_hash |-> dedupe_hash,
     installment_group_id |-> NULL, installment_number |-> NULL, installment_total |-> NULL]

\* Worker processes of the server, each with its own database session
Procs == {1, 2}

\* The session of a worker that serves no import
IdleSession ==
    [pc |-> "idle", user |-> 0, account_id |-> NULL, source_type |-> "", filename |-> <<>>,
     rows |-> <<>>, idx |-> 0, txs |-> {}, items |-> <<>>, inserted |-> 0, duplicates |-> 0,
     pending |-> 0, notes |-> <<>>, failed |-> FALSE]

Init ==
    /\ sessions = [p \in Procs |-> IdleSession]
    /\ txs = {}
    /\ imports = <<>>
    /\ items = <<>>
    /\ groups = {}
    /\ categories = {}
    /\ resp = [op |-> "none"]
    /\ served = 0

(***************************************************************************)
(* routers/transactions.py                                                 *)
(***************************************************************************)
create_transaction(user, payload) ==
    LET amount_cents == Abs(payload.amount_cents)
        scope == account_scope(payload.account_id)
        dedupe_hash == build_dedupe_hash(payload.date, payload.description, amount_cents, scope)
        tx == Transaction(NextId(txs), user, payload.date,
                          normalize_description(payload.description), amount_cents,
                          payload.category_id, payload.account_id, "manual", NULL, dedupe_hash)
    IN  /\ IF UniqueViolation(txs, tx)
           THEN \* db.commit() raises IntegrityError
                /\ resp' = [op |-> "create_transaction", user |-> user, payload |-> payload,
                            code |-> 500]
                /\ UNCHANGED store
           ELSE /\ txs' = txs \cup {tx}
                /\ resp' = [op |-> "create_transaction", user |-> user, payload |-> payload,
                            code |-> 201, id |-> tx.id]
                /\ UNCHANGED <<imports, items, groups, categories>>

\* Variant: an edit that keeps the hash of the row as it was
update_transaction_stale_hash(user, transaction_id, payload) ==
    LET found == {t \in txs : t.id = transaction_id /\ t.user_id = user}
        tx == CHOOSE t \in found : TRUE
        normalized_description == normalize_description(payload.description)
        amount_cents == Abs(payload.amount_cents)
        new_hash == build_dedupe_hash(payload.date, normalized_description, amount_cents,
                                      account_scope(payload.account_id))
        duplicate == {t \in txs : /\ t.user_id = user
                                  /\ t.account_id = payload.account_id
                                  /\ t.dedupe_hash = new_hash
                                  /\ t.id # tx.id}
        updated == [tx EXCEPT !.date = payload.date,
                              !.description = normalized_description,
                              !.amount_cents = amount_cents,
                              !.category_id = payload.category_id,
                              !.account_id = payload.account_id]
    IN  IF found = {}
        THEN /\ resp' = [op |-> "update_transaction", user |-> user, id |-> transaction_id,
                         payload |-> payload, code |-> 404]
             /\ UNCHANGED store
        ELSE IF duplicate # {}
        THEN /\ resp' = [op |-> "update_transaction", user |-> user, id |-> transaction_id,
                         payload |-> payload, code |-> 409]
             /\ UNCHANGED store
        ELSE /\ txs' = (txs \ {tx}) \cup {updated}
             /\ resp' = [op |-> "update_transaction", user |-> user, id |-> transaction_id,
                         payload |-> payload, code |-> 200]
             /\ UNCHANGED <<imports, items, groups, categories>>

update_transaction(user, transaction_id, payload) ==
    LET found == {t \in txs : t.id = transaction_id /\ t.user_id = user}
        tx == CHOOSE t \in found : TRUE
        normalized_description == normalize_description(payload.description)
        amount_cents == Abs(payload.amount_cents)
        new_hash == build_dedupe_hash(payload.date, normalized_description, amount_cents,
                                      account_scope(payload.account_id))
        duplicate == {t \in txs : /\ t.user_id = user
                                  /\ t.account_id = payload.account_id
                                  /\ t.dedupe_hash = new_hash
                                  /\ t.id # tx.id}
        updated == [tx EXCEPT !.date = payload.date,
                              !.description = normalized_description,
                              !.amount_cents = amount_cents,
                              !.category_id = payload.category_id,
                              !.account_id = payload.account_id,
                              !.dedupe_hash = new_hash]
    IN  IF found = {}
        THEN /\ resp' = [op |-> "update_transaction", user |-> user, id |-> transaction_id,
                         payload |-> payload, code |-> 404]
             /\ UNCHANGED store
        ELSE IF duplicate # {}
        THEN /\ resp' = [op |-> "update_transaction", user |-> user, id |-> transaction_id,
                         payload |-> payload, code |-> 409]
             /\ UNCHANGED store
        ELSE /\ txs' = (txs \ {tx}) \cup {updated}
             /\ resp' = [op |-> "update_transaction", user |-> user, id |-> transaction_id,
                         payload |-> payload, code |-> 200]
             /\ UNCHANGED <<imports, items, groups, categories>>

delete_transaction(user, transaction_id) ==
    LET found == {t \in txs : t.id = transaction_id /\ t.user_id = user}
    IN  IF found = {}
        THEN /\ resp' = [op |-> "delete_transaction", user |-> user, id |-> transaction_id,
                         code |-> 404]
             /\ UNCHANGED store
        ELSE /\ txs' = txs \ found
             /\ resp' = [op |-> "delete_transaction", user |-> user, id |-> transaction_id,
                         code |-> 200]
             /\ UNCHANGED <<imports, items, groups, categories>>

\* date <= date on ISO dates
DateLeq(a, b) ==
    \/ a[1] < b[1]
    \/ a[1] = b[1] /\ a[2] < b[2]
    \/ a[1] = b[1] /\ a[2] = b[2] /\ a[3] <= b[3]

\* order_by(Transaction.date.desc(), Transaction.id.desc())
RECURSIVE order_by_date_desc(_)
order_by_date_desc(rows) ==
    IF rows = {} THEN <<>>
    ELSE LET first == CHOOSE t \in rows :
                          \A u \in rows :
                             \/ u.date # t.date /\ DateLeq(u.date, t.date)
                             \/ u.date = t.date /\ u.id <= t.id
         IN  <<first>> \o order_by_date_desc(rows \ {first})

serialize_transaction(tx) ==
    [id |-> tx.id, date |-> tx.date, description |-> tx.description,
     amount_cents |-> tx.amount_cents, category_id |-> tx.category_id,
     category_name |-> <<>>, account_id |-> tx.account_id, source |-> tx.source]

\* GET /transactions. params holds the query string: the filters the handler
\* declares (<<>> or NULL when absent) and sort_by and sort_order, which it
\* does not declare and so never reads.
list_transactions(user, params) ==
    LET q == {t \in txs :
                 /\ t.user_id = user
                 /\ params.start_date # <<>> => DateLeq(params.start_date, t.date)
                 /\ params.end_date # <<>> => DateLeq(t.date, params.end_date)
                 /\ params.category_id # NULL => t.category_id = params.category_id
                 /\ params.account_id # NULL => t.account_id = params.account_id
                 /\ params.query # <<>> => Contains(Lower(params.query), Lower(t.description))}
        rows == order_by_date_desc(q)
        category_name(tx) ==
            LET found == {c \in categories : c.user_id = user /\ c.id = tx.category_id}
            IN  IF tx.category_id = NULL \/ tx.category_id = 0 \/ found = {} THEN <<>>
                ELSE (CHOOSE c \in found : TRUE).name
    IN  /\ resp' = [op |-> "list_transactions", user |-> user, params |-> params, code |-> 200,
                    body |-> [k \in DOMAIN rows |->
                                 [serialize_transaction(rows[k]) EXCEPT
                                     !.category_name = category_name(rows[k])]]]
        /\ UNCHANGED store

\* str.strip()
Strip(s) ==
    LET keep == {i \in DOMAIN s : ~IsSpace(s[i])}
    IN  IF keep = {} THEN <<>>
        ELSE SubSeq(s, CHOOSE i \in keep : \A j \in keep : i <= j, Max(keep))

(***************************************************************************)
(* routers/categories.py                                                   *)
(***************************************************************************)
\* The characters of a name in the order of their code points
Alphabet == <<" ">> \o DigitChars \o UpperChars \o LowerChars
CharRank(c) == CHOOSE k \in DOMAIN Alphabet : Alphabet[k] = c

\* a <= b on names, as order_by(Category.name.asc()) compares them
NameLeq(a, b) ==
    \/ a = b
    \/ \E k \in 1..(Len(a) + 1) :
          /\ k <= Len(b)
          /\ \A j \in 1..(k - 1) : a[j] = b[j]
          /\ k = Len(a) + 1 \/ CharRank(a[k]) < CharRank(b[k])

\* order_by(Category.name.asc(), Category.id.asc())
RECURSIVE order_by_name(_)
order_by_name(cats) ==
    IF cats = {} THEN <<>>
    ELSE LET first == CHOOSE c \in cats :
                          \A d \in cats :
                             \/ c.name # d.name /\ NameLeq(c.name, d.name)
                             \/ c.name = d.name /\ c.id <= d.id
         IN  <<first>> \o order_by_name(cats \ {first})

Category(id, user_id, name) == [id |-> id, user_id |-> user_id, name |-> name]

\* POST /categories. The lookup of an existing category compares the
\* lower-cased names and has no filter on the owner.
create_category(user, payload) ==
    LET name == SplitJoin(Strip(payload.name))
        matches == {c \in categories : Lower(c.name) = Lower(name)}
        existing == CHOOSE c \in matches : \A d \in matches : c.id <= d.id
        cat == Category(NextId(categories), user, name)
        echo == [op |-> "create_category", user |-> user, payload |-> payload]
    IN  IF name = <<>>
        THEN /\ resp' = [code |-> 400] @@ echo
             /\ UNCHANGED store
        ELSE IF matches # {}
        THEN /\ resp' = [code |-> 201, id |-> existing.id, name |-> existing.name] @@ echo
             /\ UNCHANGED store
        ELSE IF \E c \in categories : c.user_id = user /\ c.name = name
        THEN \* uq_categories_user_name: db.commit() raises IntegrityError
             /\ resp' = [code |-> 409] @@ echo
             /\ UNCHANGED store
        ELSE /\ categories' = categories \cup {cat}
             /\ resp' = [code |-> 201, id |-> cat.id, name |-> cat.name] @@ echo
             /\ UNCHANGED <<txs, imports, items, groups>>

\* GET /categories: every category of the table in the order of the names,
\* the first of each lower-cased name kept; the query has no filter on the owner.
list_categories(user) ==
    LET cats == order_by_name(categories)
        key(c) == Lower(Strip(c.name))
        kept == SelectSeq(cats, LAMBDA c :
                    \A k \in DOMAIN cats :
                       (key(cats[k]) = key(c) /\ cats[k] # c)
                          => \E j \in DOMAIN cats : j < k /\ cats[j] = c)
    IN  /\ resp' = [op |-> "list_categories", user |-> user, code |-> 200,
                    body |-> [k \in DOMAIN kept |-> [id |-> kept[k].id, name |-> kept[k].name]]]
        /\ UNCHANGED store

(***************************************************************************)
(* routers/imports.py                                                      *)
(***************************************************************************)
EndsWith(s, suffix) ==
    /\ Len(s) >= Len(suffix)
    /\ SubSeq(s, Len(s) - Len(suffix) + 1, Len(s)) = suffix

\* parse_xlsx / parse_csv: the rows of the file, or an exception
parse_file(content) ==
    IF content.readable THEN [ok |-> TRUE, rows |-> content.rows] ELSE [ok |-> FALSE, rows |-> <<>>]

\* json.loads(mapping_json) if mapping_json else None: the mapping, or an
\* exception (JSONDecodeError)
json_loads(mapping_json) ==
    IF ~mapping_json.given THEN [ok |-> TRUE, value |-> NoMapping]
    ELSE [ok |-> mapping_json.wellformed, value |-> mapping_json.value]

NoDate == <<>>      \* NULL in a date column
NoText == <<>>      \* NULL in a text column

\* Variant: a review item that forgets the target account of the import
ImportReviewItem_no_account(import_id, user_id, row_number, raw_data, error, account_id) ==
    [import_id |-> import_id, user_id |-> user_id, row_number |-> row_number,
     raw_data |-> raw_data, error |-> error, status |-> "pending",
     resolved_date |-> NoDate, resolved_description |-> NoText,
     resolved_amount_cents |-> NULL, resolved_category_id |-> NULL,
     resolved_account_id |-> NULL]

ImportReviewItem(import_id, user_id, row_number, raw_data, error, account_id) ==
    [import_id |-> import_id, user_id |-> user_id, row_number |-> row_number,
     raw_data |-> raw_data, error |-> error, status |-> "pending",
     resolved_date |-> NoDate, resolved_description |-> NoText,
     resolved_amount_cents |-> NULL, resolved_category_id |-> NULL,
     resolved_account_id |-> account_id]

\* db.query(Category).filter(user_id == user, name.ilike(cat_name)).first();
\* the names of the rows hold no LIKE wildcard (% or _)
find_category(cats, user, cat_name) ==
    LET found == {c \in cats : c.user_id = user /\ Lower(c.name) = Lower(cat_name)}
    IN  IF cat_name = <<>> \/ found = {} THEN NULL
        ELSE (CHOOSE c \in found : \A d \in found : c.id <= d.id).id

\* Variant: the loop body with a duplicate query that compares account_id
\* with = NULL, which no row satisfies, instead of IS NULL
import_row_null_blind(acc, idx, row, normalized, user, account_id, source_type, import_id, cats) ==
    LET category_id == find_category(cats, user, normalized.category)
        dedupe_hash == build_dedupe_hash(normalized.date, normalized.description,
                                         normalized.amount_cents, account_scope(account_id))
        existing == {t \in acc.txs : /\ t.user_id = user
                                     /\ account_id # NULL
                                     /\ t.account_id = account_id
                                     /\ t.dedupe_hash = dedupe_hash}
        tx == Transaction(NextId(acc.txs), user, normalized.date, normalized.description,
                          normalized.amount_cents, category_id, account_id, source_type,
                          import_id, dedupe_hash)
    IN  IF ~normalized.ok
        THEN [acc EXCEPT !.pending = @ + 1,
                         !.notes = Append(@, [row |-> idx, error |-> normalized.error]),
                         !.items = Append(@, ImportReviewItem(import_id, user, idx, row,
                                                              normalized.error, account_id))]
        ELSE IF existing # {}
        THEN [acc EXCEPT !.duplicates = @ + 1]
        ELSE [acc EXCEPT !.txs = @ \cup {tx}, !.inserted = @ + 1]

\* Variant: a pre-check on the content of the row alone, whatever the account
import_row_any_account(acc, idx, row, normalized, user, account_id, source_type, import_id, cats) ==
    LET category_id == find_category(cats, user, normalized.category)
        dedupe_hash == build_dedupe_hash(normalized.date, normalized.description,
                                         normalized.amount_cents, account_scope(account_id))
        existing == {t \in acc.txs : /\ t.user_id = user
                                     /\ SubSeq(t.dedupe_hash, 1, 3) = SubSeq(dedupe_hash, 1, 3)}
        tx == Transaction(NextId(acc.txs), user, normalized.date, normalized.description,
                          normalized.amount_cents, category_id, account_id, source_type,
                          import_id, dedupe_hash)
    IN  IF ~normalized.ok
        THEN [acc EXCEPT !.pending = @ + 1,
                         !.notes = Append(@, [row |-> idx, error |-> normalized.error]),
                         !.items = Append(@, ImportReviewItem(import_id, user, idx, row,
                                                              normalized.error, account_id))]
        ELSE IF existing # {}
        THEN [acc EXCEPT !.duplicates = @ + 1]
        ELSE [acc EXCEPT !.txs = @ \cup {tx}, !.inserted = @ + 1]

\* One pass of the loop body of import_tabular over row idx, whose map_row
\* gave normalized, from the session state
\* acc = [txs, items, inserted, duplicates, pending, notes].
import_row(acc, idx, row, normalized, user, account_id, source_type, import_id, cats) ==
    LET category_id == find_category(cats, user, normalized.category)
        dedupe_hash == build_dedupe_hash(normalized.date, normalized.description,
                                         normalized.amount_cents, account_scope(account_id))
        existing == {t \in acc.txs : /\ t.user_id = user
                                     /\ t.account_id = account_id
                                     /\ t.dedupe_hash = dedupe_hash}
        tx == Transaction(NextId(acc.txs), user, normalized.date, normalized.description,
                          normalized.amount_cents, category_id, account_id, source_type,
                          import_id, dedupe_hash)
    IN  IF ~normalized.ok
        THEN [acc EXCEPT !.pending = @ + 1,
                         !.notes = Append(@, [row |-> idx, error |-> normalized.error]),
                         !.items = Append(@, ImportReviewItem(import_id, user, idx, row,
                                                              normalized.error, account_id))]
        ELSE IF existing # {}
        THEN [acc EXCEPT !.duplicates = @ + 1]
        ELSE [acc EXCEPT !.txs = @ \cup {tx}, !.inserted = @ + 1]

\* Variant: a loop that stops at the first row that fails
import_rows_abort(rows, mapping, user, account_id, source_type, import_id, cats, txs0, items0) ==
    LET acc[i \in 0..Len(rows)] ==
            IF i = 0
            THEN [txs |-> txs0, items |-> items0, inserted |-> 0, duplicates |-> 0,
                  pending |-> 0, notes |-> <<>>]
            ELSE IF acc[i - 1].pending > 0
            THEN acc[i - 1]
            ELSE import_row(acc[i - 1], i, rows[i], Normalized[rows[i], mapping], user,
                            account_id, source_type, import_id, cats)
    IN  acc[Len(rows)]

\* for idx, row in enumerate(rows, start=1)
import_rows(rows, mapping, user, account_id, source_type, import_id, cats, txs0, items0) ==
    LET acc[i \in 0..Len(rows)] ==
            IF i = 0
            THEN [txs |-> txs0, items |-> items0, inserted |-> 0, duplicates |-> 0,
                  pending |-> 0, notes |-> <<>>]
            ELSE import_row(acc[i - 1], i, rows[i], Normalized[rows[i], mapping], user,
                            account_id, source_type, import_id, cats)
    IN  acc[Len(rows)]

\* Variant: any pending row sends the whole job to review
job_status_pending_only(pending, inserted) ==
    IF pending > 0 THEN "needs_review" ELSE "ok"

job_status(pending, inserted) ==
    IF pending > 0 /\ inserted = 0 THEN "needs_review"
    ELSE IF pending > 0 THEN "partial"
    ELSE "ok"

ImportJob(user_id, source_type, filename, status, notes) ==
    [user_id |-> user_id, source_type |-> source_type, filename |-> filename,
     status |-> status, notes |-> notes]

\* The job is flushed first and committed when the parser fails or the loop
\* ends; an exception that leaves the handler ends the session without commit.
import_tabular(user, filename, content, mapping_json, account_id) ==
    LET source_type == IF EndsWith(Lower(filename), <<".", "x", "l", "s", "x">>)
                       THEN "xlsx" ELSE "csv"
        import_id == Len(imports) + 1
        parsed == parse_file(content)
        mapping == json_loads(mapping_json)
    IN  IF ~parsed.ok
        THEN /\ imports' = Append(imports, ImportJob(user, source_type, filename, "needs_review",
                                      <<[row |-> 0, error |-> [kind |-> "parse_error"]]>>))
             /\ resp' = [op |-> "import_tabular", user |-> user, account_id |-> account_id,
                         content |-> content, mapping_json |-> mapping_json, code |-> 400]
             /\ UNCHANGED <<txs, items, groups, categories>>
        ELSE IF ~mapping.ok
        THEN \* json.loads raises: 500, the flushed job is rolled back
             /\ resp' = [op |-> "import_tabular", user |-> user, account_id |-> account_id,
                         content |-> content, mapping_json |-> mapping_json, code |-> 500]
             /\ UNCHANGED store
        ELSE \E done \in {import_rows(parsed.rows, mapping.value, user, account_id, source_type,
                                      import_id, categories, txs, items)} :
                /\ txs' = done.txs
                /\ items' = done.items
                /\ imports' = Append(imports, ImportJob(user, source_type, filename,
                                          job_status(done.pending, done.inserted), done.notes))
                /\ resp' = [op |-> "import_tabular", user |-> user, account_id |-> account_id,
                            content |-> content, mapping_json |-> mapping_json, code |-> 200,
                            import_id |-> import_id, inserted |-> done.inserted,
                            duplicates |-> done.duplicates, pending |-> done.pending]
                /\ UNCHANGED <<groups, categories>>

\* Variant: a listing that does not filter by owner
list_pending_import_rows_all_owners(user) ==
    LET ids == SelectSeq([i \in DOMAIN items |-> i],
                         LAMBDA i : items[i].status = "pending")
    IN  /\ resp' = [op |-> "list_pending_import_rows", user |-> user, code |-> 200,
                    body |-> [k \in DOMAIN ids |->
                                 [id |-> ids[k], import_id |-> items[ids[k]].import_id,
                                  row_number |-> items[ids[k]].row_number,
                                  raw_data |-> items[ids[k]].raw_data,
                                  error |-> items[ids[k]].error,
                                  suggested_account_id |-> items[ids[k]].resolved_account_id]]]
        /\ UNCHANGED store

\* GET /imports/pending
list_pending_import_rows(user) ==
    LET ids == SelectSeq([i \in DOMAIN items |-> i],
                         LAMBDA i : items[i].user_id = user /\ items[i].status = "pending")
    IN  /\ resp' = [op |-> "list_pending_import_rows", user |-> user, code |-> 200,
                    body |-> [k \in DOMAIN ids |->
                                 [id |-> ids[k], import_id |-> items[ids[k]].import_id,
                                  row_number |-> items[ids[k]].row_number,
                                  raw_data |-> items[ids[k]].raw_data,
                                  error |-> items[ids[k]].error,
                                  suggested_account_id |-> items[ids[k]].resolved_account_id]]]
        /\ UNCHANGED store

\* Variant: the corrected account alone, without the suggested one
or_account_payload_only(a, b) == a

\* payload.account_id or item.resolved_account_id
or_account(a, b) == IF a # NULL /\ a # 0 THEN a ELSE b

\* Variant: the item query without the filter on status
find_pending_item_any_status(rows, user, review_item_id) ==
    {i \in DOMAIN rows : /\ i = review_item_id
                         /\ rows[i].user_id = user}

\* The item query of confirm: ids of the rows it selects
find_pending_item(rows, user, review_item_id) ==
    {i \in DOMAIN rows : /\ i = review_item_id
                         /\ rows[i].user_id = user
                         /\ rows[i].status = "pending"}

\* Variant: the transaction query comparing account_id with = NULL
find_existing_null_blind(rows, user, account_id, dedupe_hash) ==
    {t \in rows : /\ t.user_id = user
                  /\ account_id # NULL
                  /\ t.account_id = account_id
                  /\ t.dedupe_hash = dedupe_hash}

\* The transaction query of confirm: the rows it selects
find_existing(rows, user, account_id, dedupe_hash) ==
    {t \in rows : /\ t.user_id = user
                  /\ t.account_id = account_id
                  /\ t.dedupe_hash = dedupe_hash}

\* Variant: the recount closes every job that is waiting for review
close_job_every(jobs, import_id, pending_count) ==
    [j \in DOMAIN jobs |->
        IF pending_count = 0 /\ jobs[j].status \in {"needs_review", "partial"}
        THEN [jobs[j] EXCEPT !.status = "ok"] ELSE jobs[j]]

\* db.get(ImportJob, item.import_id) and its promotion to ok
close_job(jobs, import_id, pending_count) ==
    IF /\ import_id \in DOMAIN jobs
       /\ pending_count = 0
       /\ jobs[import_id].status \in {"needs_review", "partial"}
    THEN [jobs EXCEPT ![import_id].status = "ok"]
    ELSE jobs

confirm_pending_row(user, review_item_id, payload) ==
    LET found == find_pending_item(items, user, review_item_id) # {}
        item == items[review_item_id]
        account_id == or_account(payload.account_id, item.resolved_account_id)
        dedupe_hash == build_dedupe_hash(payload.date, payload.description, payload.amount_cents,
                                         account_scope(account_id))
        existing == find_existing(txs, user, account_id, dedupe_hash)
        tx == Transaction(NextId(txs), user, payload.date, payload.description,
                          payload.amount_cents, payload.category_id, account_id,
                          "import_review", item.import_id, dedupe_hash)
        resolved == [item EXCEPT !.status = "resolved",
                                 !.resolved_date = payload.date,
                                 !.resolved_description = payload.description,
                                 !.resolved_amount_cents = payload.amount_cents,
                                 !.resolved_category_id = payload.category_id,
                                 !.resolved_account_id = account_id]
        items1 == [items EXCEPT ![review_item_id] = resolved]
        pending_count == Cardinality({i \in DOMAIN items1 :
                                         /\ items1[i].import_id = item.import_id
                                         /\ items1[i].status = "pending"})
    IN  IF ~found
        THEN /\ resp' = [op |-> "confirm_pending_row", user |-> user, id |-> review_item_id,
                         payload |-> payload, code |-> 404]
             /\ UNCHANGED store
        ELSE IF existing # {}
        THEN /\ items' = [items EXCEPT ![review_item_id].status = "duplicate"]
             /\ resp' = [op |-> "confirm_pending_row", user |-> user, id |-> review_item_id,
                         payload |-> payload, code |-> 200, status |-> "duplicate",
                         transaction_id |->
                             (CHOOSE t \in existing : \A o \in existing : t.id <= o.id).id]
             /\ UNCHANGED <<txs, imports, groups, categories>>
        ELSE /\ txs' = txs \cup {tx}
             /\ items' = items1
             /\ imports' = close_job(imports, item.import_id, pending_count)
             /\ resp' = [op |-> "confirm_pending_row", user |-> user, id |-> review_item_id,
                         payload |-> payload, code |-> 200, status |-> "resolved",
                         transaction_id |-> tx.id]
             /\ UNCHANGED <<groups, categories>>

(***************************************************************************)
(* routers/installments.py                                                 *)
(***************************************************************************)
\* Variant: installments numbered from 0 in the description
installment_description_from_zero(base, i, n) ==
    base \o <<" ", "(", ToString(i - 1), "/", ToString(n), ")">>

\* f"{base} ({i}/{n})", the numbers kept as single tokens
installment_description(base, i, n) ==
    base \o <<" ", "(", ToString(i), "/", ToString(n), ")">>

create_group(user, payload) ==
    LET total0 == IF payload.total_cents = NULL
                  THEN payload.amount_per_installment_cents * payload.installments
                  ELSE payload.total_cents
        total_cents == Abs(total0)
        base_each == total_cents \div payload.installments
        remainder == total_cents - (base_each * payload.installments)
        group == [id |-> NextId(groups), user_id |-> user,
                  base_description |-> Strip(payload.base_description),
                  total_cents |-> total_cents, installments |-> payload.installments,
                  start_date |-> payload.start_date]
        first_id == NextId(txs)
        new_tx(i) ==
            LET amount == base_each + (IF i = payload.installments THEN remainder ELSE 0)
                tx_date == add_months(payload.start_date, (i - 1) * payload.interval_months)
                desc == installment_description(Strip(payload.base_description), i,
                                                payload.installments)
                dedupe_hash == build_dedupe_hash(tx_date, desc, Abs(amount),
                                                 account_scope(payload.account_id))
            IN  [Transaction(first_id + i - 1, user, tx_date, desc, Abs(amount),
                             payload.category_id, payload.account_id, "manual", NULL, dedupe_hash)
                    EXCEPT !.installment_group_id = group.id,
                           !.installment_number = i,
                           !.installment_total = payload.installments]
        added == {new_tx(i) : i \in 1..payload.installments}
    IN  IF payload.installments <= 0
        THEN /\ resp' = [op |-> "create_group", user |-> user, payload |-> payload, code |-> 400]
             /\ UNCHANGED store
        ELSE IF payload.total_cents = NULL /\ payload.amount_per_installment_cents = NULL
        THEN /\ resp' = [op |-> "create_group", user |-> user, payload |-> payload, code |-> 400]
             /\ UNCHANGED store
        ELSE IF \E tx \in added : UniqueViolation(txs \cup added, tx)
        THEN \* db.commit() raises IntegrityError; nothing is stored
             /\ resp' = [op |-> "create_group", user |-> user, payload |-> payload, code |-> 500]
             /\ UNCHANGED store
        ELSE /\ groups' = groups \cup {group}
             /\ txs' = txs \cup added
             /\ resp' = [op |-> "create_group", user |-> user, payload |-> payload,
                         code |-> 201, id |-> group.id]
             /\ UNCHANGED <<imports, items, categories>>

\* Variant: a delete that removes every installment of the owner
delete_group_every_installment(user, group_id) ==
    LET found == {g \in groups : g.id = group_id /\ g.user_id = user}
    IN  IF found = {}
        THEN /\ resp' = [op |-> "delete_group", user |-> user, id |-> group_id, code |-> 404]
             /\ UNCHANGED store
        ELSE /\ txs' = {t \in txs : ~(t.user_id = user /\ t.installment_group_id # NULL)}
             /\ groups' = groups \ found
             /\ resp' = [op |-> "delete_group", user |-> user, id |-> group_id, code |-> 200]
             /\ UNCHANGED <<imports, items, categories>>

delete_group(user, group_id) ==
    LET found == {g \in groups : g.id = group_id /\ g.user_id = user}
    IN  IF found = {}
        THEN /\ resp' = [op |-> "delete_group", user |-> user, id |-> group_id, code |-> 404]
             /\ UNCHANGED store
        ELSE /\ txs' = {t \in txs : ~(t.user_id = user /\ t.installment_group_id = group_id)}
             /\ groups' = groups \ found
             /\ resp' = [op |-> "delete_group", user |-> user, id |-> group_id, code |-> 200]
             /\ UNCHANGED <<imports, items, categories>>

(***************************************************************************)
(* routers/reports.py                                                      *)
(***************************************************************************)
\* func.sum(Transaction.amount_cents) over a set of rows
RECURSIVE SumAmounts(_)
SumAmounts(rows) ==
    IF rows = {} THEN 0
    ELSE LET t == CHOOSE x \in rows : TRUE
         IN  t.amount_cents + SumAmounts(rows \ {t})

\* Transaction.date.like(f"{year:04d}-{month:02d}-%")
InMonth(iso_date, year, month) == iso_date[1] = year /\ iso_date[2] = month

\* GET /reports/monthly
monthly(user, year, month) ==
    LET q == {t \in txs : t.user_id = user /\ InMonth(t.date, year, month)}
        total_expenses == SumAmounts(q)
        total_income == 0
    IN  /\ resp' = [op |-> "monthly", user |-> user, code |-> 200, year |-> year,
                    month |-> month, total_expenses_cents |-> total_expenses,
                    total_income_cents |-> total_income,
                    balance_cents |-> total_income - total_expenses]
        /\ UNCHANGED store

(***************************************************************************)
(* import_tabular served by several worker processes over one database     *)
(* that runs their transactions concurrently (DATABASE_URL postgresql://,  *)
(* READ COMMITTED): a session reads what is committed and what it wrote    *)
(* itself, and its writes reach the tables at db.commit().  One step is    *)
(* one statement of the session.  Job ids are given in the order of the    *)
(* commits.                                                                *)
(***************************************************************************)
\* Rows written by the open sessions of the other workers
OtherWrites(p) == UNION {sessions[q].txs : q \in Procs \ {p}}

\* Lines 26-49: the file is read and parsed, the job is flushed, the mapping
\* is read; the loop starts at row 1
import_begin(p, user, filename, content, mapping_json, account_id) ==
    /\ sessions[p].pc = "idle"
    /\ parse_file(content).ok
    /\ json_loads(mapping_json).ok
    /\ served < MaxRequests
    /\ served' = served + 1
    /\ sessions' = [sessions EXCEPT ![p] =
            [IdleSession EXCEPT !.pc = "check", !.user = user, !.account_id = account_id,
                                !.source_type = IF EndsWith(Lower(filename), <<".", "x", "l", "s", "x">>)
                                                THEN "xlsx" ELSE "csv",
                                !.filename = filename,
                                !.rows = parse_file(content).rows, !.idx = 1]]
    /\ UNCHANGED <<store, resp>>

\* Lines 52-79 for the row at idx: map_row and the pre-check query.  In a
\* session whose flush failed, every query raises (PendingRollbackError).
import_check(p) ==
    LET s == sessions[p]
        row == s.rows[s.idx]
        normalized == Normalized[row, NoMapping]
        dedupe_hash == build_dedupe_hash(normalized.date, normalized.description,
                                         normalized.amount_cents, account_scope(s.account_id))
        existing == find_existing(txs \cup s.txs, s.user, s.account_id, dedupe_hash)
        raised(error) ==
            [s EXCEPT !.pending = @ + 1,
                      !.notes = Append(@, [row |-> s.idx, error |-> error]),
                      !.items = Append(@, ImportReviewItem(0, s.user, s.idx, row, error,
                                                           s.account_id)),
                      !.idx = @ + 1]
    IN  /\ s.pc = "check"
        /\ s.idx <= Len(s.rows)
        /\ sessions' = [sessions EXCEPT ![p] =
                IF ~normalized.ok THEN raised(normalized.error)
                ELSE IF s.failed
                THEN raised([kind |-> "PendingRollbackError", cell |-> EmptyCell])
                ELSE IF existing # {} THEN [s EXCEPT !.duplicates = @ + 1, !.idx = @ + 1]
                ELSE [s EXCEPT !.pc = "insert"]]
        /\ UNCHANGED <<store, resp, served>>

\* Lines 81-109 for the row at idx: db.add(tx); db.flush().  The unique index
\* makes the INSERT wait for an open session that wrote the same (user_id,
\* account_id, dedupe_hash), and fail (IntegrityError) when such a row is
\* committed; the flush that fails rolls the session's transaction back, and
\* the except branch of the loop counts the row as pending.
import_insert(p) ==
    LET s == sessions[p]
        row == s.rows[s.idx]
        normalized == Normalized[row, NoMapping]
        dedupe_hash == build_dedupe_hash(normalized.date, normalized.description,
                                         normalized.amount_cents, account_scope(s.account_id))
        tx == Transaction(NextId(txs \cup s.txs \cup OtherWrites(p)), s.user, normalized.date,
                          normalized.description, normalized.amount_cents,
                          find_category(categories, s.user, normalized.category),
                          s.account_id, s.source_type, 0, dedupe_hash)
        error == [kind |-> "IntegrityError", cell |-> EmptyCell]
    IN  /\ s.pc = "insert"
        /\ ~UniqueViolation(OtherWrites(p), tx)
        /\ sessions' = [sessions EXCEPT ![p] =
                IF UniqueViolation(txs, tx)
                THEN [s EXCEPT !.pc = "check", !.failed = TRUE, !.txs = {},
                               !.pending = @ + 1,
                               !.notes = Append(@, [row |-> s.idx, error |-> error]),
                               !.items = Append(@, ImportReviewItem(0, s.user, s.idx, row, error,
                                                                    s.account_id)),
                               !.idx = @ + 1]
                ELSE [s EXCEPT !.pc = "check", !.txs = @ \cup {tx}, !.inserted = @ + 1,
                               !.idx = @ + 1]]
        /\ UNCHANGED <<store, resp, served>>

\* Lines 111-119 after the last row: the status of the job and db.commit(),
\* which raises in a session whose flush failed (500, nothing is stored)
import_commit(p) ==
    LET s == sessions[p]
        import_id == Len(imports) + 1
        echo == [op |-> "import_tabular", user |-> s.user, account_id |-> s.account_id,
                 content |-> [readable |-> TRUE, rows |-> s.rows], mapping_json |-> AbsentJson]
    IN  /\ s.pc = "check"
        /\ s.idx > Len(s.rows)
        /\ sessions' = [sessions EXCEPT ![p] = IdleSession]
        /\ IF s.failed
           THEN /\ resp' = [code |-> 500] @@ echo
                /\ UNCHANGED store
           ELSE /\ txs' = txs \cup {[t EXCEPT !.import_id = import_id] : t \in s.txs}
                /\ items' = items \o [i \in DOMAIN s.items |->
                                         [s.items[i] EXCEPT !.import_id = import_id]]
                /\ imports' = Append(imports, ImportJob(s.user, s.source_type, s.filename,
                                          job_status(s.pending, s.inserted), s.notes))
                /\ resp' = [code |-> 200, import_id |-> import_id, inserted |-> s.inserted,
                            duplicates |-> s.duplicates, pending |-> s.pending] @@ echo
                /\ UNCHANGED <<groups, categories>>
        /\ UNCHANGED served

(***************************************************************************)
(* confirm_pending_row served by two workers at a time (the handler is a   *)
(* plain def, run on a thread of its own with a session of its own).  A    *)
(* session reads what is committed and its own writes; its writes are      *)
(* flushed under the lock of the rows and index entries they touch and are *)
(* seen by the others at its commit.                                       *)
(***************************************************************************)
\* The open sessions other than p that hold the lock of review item id
\* (they flushed an UPDATE of the row and did not commit yet)
ItemLocked(p, id) ==
    \E q \in Procs \ {p} : sessions[q].pc = "confirm_commit" /\ sessions[q].item_id = id

\* Lines 150-160: the lookup of the pending item of the caller
confirm_begin(p, user, review_item_id, payload) ==
    /\ sessions[p].pc = "idle"
    /\ served < MaxRequests
    /\ served' = served + 1
    /\ IF find_pending_item(items, user, review_item_id) = {}
       THEN /\ resp' = [op |-> "confirm_pending_row", user |-> user, id |-> review_item_id,
                        payload |-> payload, code |-> 404]
            /\ UNCHANGED <<store, sessions>>
       ELSE /\ sessions' = [sessions EXCEPT ![p] =
                   [item_id |-> review_item_id, item |-> items[review_item_id],
                    payload |-> payload, pending_count |-> 0]
                      @@ [IdleSession EXCEPT !.pc = "confirm_check", !.user = user]]
            /\ UNCHANGED <<store, resp>>

\* Lines 162-174: the dedupe hash and the query for an existing transaction
confirm_check(p) ==
    LET s == sessions[p]
        account_id == or_account(s.payload.account_id, s.item.resolved_account_id)
        dedupe_hash == build_dedupe_hash(s.payload.date, s.payload.description,
                                         s.payload.amount_cents, account_scope(account_id))
        existing == find_existing(txs, s.user, account_id, dedupe_hash)
    IN  /\ s.pc = "confirm_check"
        /\ sessions' = [sessions EXCEPT ![p] =
                IF existing # {}
                THEN [s EXCEPT !.pc = "confirm_duplicate", !.txs = existing]
                ELSE [s EXCEPT !.pc = "confirm_insert"]]
        /\ UNCHANGED <<store, resp, served>>

\* Lines 175-177: the item is marked duplicate and committed; the UPDATE
\* waits for a session that holds the lock of the row
confirm_duplicate(p) ==
    LET s == sessions[p]
    IN  /\ s.pc = "confirm_duplicate"
        /\ ~ItemLocked(p, s.item_id)
        /\ items' = [items EXCEPT ![s.item_id].status = "duplicate"]
        /\ resp' = [op |-> "confirm_pending_row", user |-> s.user, id |-> s.item_id,
                    payload |-> s.payload, code |-> 200, status |-> "duplicate",
                    transaction_id |-> (CHOOSE t \in s.txs : \A o \in s.txs : t.id <= o.id).id]
        /\ sessions' = [sessions EXCEPT ![p] = IdleSession]
        /\ UNCHANGED <<txs, imports, groups, categories, served>>

\* Lines 179-206: the transaction and the resolved fields of the item are
\* flushed, the pending items of the job are counted.  The INSERT waits for
\* an open session that wrote the same (user_id, account_id, dedupe_hash)
\* and the UPDATE for one that wrote the item; the INSERT fails
\* (IntegrityError, which nothing catches: 500) when such a transaction is
\* committed.
confirm_insert(p) ==
    LET s == sessions[p]
        account_id == or_account(s.payload.account_id, s.item.resolved_account_id)
        dedupe_hash == build_dedupe_hash(s.payload.date, s.payload.description,
                                         s.payload.amount_cents, account_scope(account_id))
        tx == Transaction(NextId(txs \cup OtherWrites(p)), s.user, s.payload.date,
                          s.payload.description, s.payload.amount_cents, s.payload.category_id,
                          account_id, "import_review", s.item.import_id, dedupe_hash)
        pending_count == Cardinality({i \in DOMAIN items :
                                         /\ i # s.item_id
                                         /\ items[i].import_id = s.item.import_id
                                         /\ items[i].status = "pending"})
    IN  /\ s.pc = "confirm_insert"
        /\ ~ItemLocked(p, s.item_id)
        /\ ~UniqueViolation(OtherWrites(p), tx)
        /\ IF UniqueViolation(txs, tx)
           THEN /\ resp' = [op |-> "confirm_pending_row", user |-> s.user, id |-> s.item_id,
                            payload |-> s.payload, code |-> 500]
                /\ sessions' = [sessions EXCEPT ![p] = IdleSession]
           ELSE /\ sessions' = [sessions EXCEPT ![p] =
                       [s EXCEPT !.pc = "confirm_commit", !.txs = {tx},
                                 !.pending_count = pending_count]]
                /\ UNCHANGED resp
        /\ UNCHANGED <<store, served>>

\* Lines 207-208: db.commit()
confirm_commit(p) ==
    LET s == sessions[p]
        tx == CHOOSE t \in s.txs : TRUE
    IN  /\ s.pc = "confirm_commit"
        /\ txs' = txs \cup s.txs
        /\ items' = [items EXCEPT ![s.item_id] =
                         [@ EXCEPT !.status = "resolved",
                                   !.resolved_date = s.payload.date,
                                   !.resolved_description = s.payload.description,
                                   !.resolved_amount_cents = s.payload.amount_cents,
                                   !.resolved_category_id = s.payload.category_id,
                                   !.resolved_account_id = tx.account_id]]
        /\ imports' = close_job(imports, s.item.import_id, s.pending_count)
        /\ resp' = [op |-> "confirm_pending_row", user |-> s.user, id |-> s.item_id,
                    payload |-> s.payload, code |-> 200, status |-> "resolved",
                    transaction_id |-> tx.id]
        /\ sessions' = [sessions EXCEPT ![p] = IdleSession]
        /\ UNCHANGED <<groups, categories, served>>

(***************************************************************************)
(* The requests.                                                           *)
(***************************************************************************)
\* One more request is served
Tick == served < MaxRequests /\ served' = served + 1 /\ UNCHANGED sessions

\* Ids a request may name: those in use and one that is missing
TxIds == 1..NextId(txs)
ItemIds == 1..(Len(items) + 1)
GroupIds == 1..NextId(groups)

\* The months a report is asked for
ReportMonths == {<<2026, 2>>, <<2026, 3>>}

Next ==
    \/ \E user \in Users, payload \in Payloads : Tick /\ create_transaction(user, payload)
    \/ \E user \in Users, id \in TxIds, payload \in Payloads :
          Tick /\ update_transaction(user, id, payload)
    \/ \E user \in Users, id \in TxIds : Tick /\ delete_transaction(user, id)
    \/ \E user \in Users, filename \in FileNames, upload \in LedgerUploads,
          account_id \in OptAccount :
          Tick /\ import_tabular(user, filename, upload.content, upload.mapping_json, account_id)
    \/ \E user \in Users : Tick /\ list_pending_import_rows(user)
    \/ \E user \in Users, id \in ItemIds, payload \in Payloads :
          Tick /\ confirm_pending_row(user, id, payload)
    \/ \E user \in Users, payload \in GroupPayloads : Tick /\ create_group(user, payload)
    \/ \E user \in Users, id \in GroupIds : Tick /\ delete_group(user, id)
    \/ \E user \in Users, ym \in ReportMonths : Tick /\ monthly(user, ym[1], ym[2])

Spec == Init /\ [][Next]_vars

\* The import pipeline and its review queue alone
NextImport ==
    \/ \E user \in Users, filename \in FileNames, upload \in Uploads, account_id \in OptAccount :
          Tick /\ import_tabular(user, filename, upload.content, upload.mapping_json, account_id)
    \/ \E user \in Users : Tick /\ list_pending_import_rows(user)
    \/ \E user \in Users, id \in ItemIds, payload \in Payloads :
          Tick /\ confirm_pending_row(user, id, payload)

SpecImport == Init /\ [][NextImport]_vars

\* Imports against no account and against two accounts
ScopeAccounts == {NULL, 1, 2}
ScopeUploads ==
    {[content |-> [readable |-> TRUE, rows |-> rows], mapping_json |-> AbsentJson] :
        rows \in {<<RowPao>>, <<RowPao, RowCha>>, <<RowBadDate, RowPao, RowPao>>}}

NextScope ==
    \E user \in Users, filename \in FileNames, upload \in ScopeUploads,
       account_id \in ScopeAccounts :
       Tick /\ import_tabular(user, filename, upload.content, upload.mapping_json, account_id)

SpecScope == Init /\ [][NextScope]_vars

\* Manual entries and edits next to the import of one row, with the
\* description of the row in the payloads
EditPayloads ==
    [date : PayDates, description : {D_Pao}, amount_cents : PayAmounts,
     category_id : OptCategory, account_id : OptAccount]
EditUploads == {[content |-> [readable |-> TRUE, rows |-> <<RowPao>>], mapping_json |-> AbsentJson]}

NextEdit ==
    \/ \E user \in Users, payload \in EditPayloads : Tick /\ create_transaction(user, payload)
    \/ \E user \in Users, id \in TxIds, payload \in EditPayloads :
          Tick /\ update_transaction(user, id, payload)
    \/ \E user \in Users, filename \in FileNames, upload \in EditUploads,
          account_id \in OptAccount :
          Tick /\ import_tabular(user, filename, upload.content, upload.mapping_json, account_id)

SpecEdit == Init /\ [][NextEdit]_vars

\* Manual entries of an expense and of an income, and the monthly report
D_Lcto == <<"L", "c", "t", "o">>
ReportPayloads ==
    [date : {<<2026, 2, 10>>}, description : {D_Lcto}, amount_cents : {-5000, 800000},
     category_id : OptCategory, account_id : {NULL}]

NextReport ==
    \/ \E user \in Users, payload \in ReportPayloads : Tick /\ create_transaction(user, payload)
    \/ \E user \in Users, filename \in FileNames, upload \in EditUploads,
          account_id \in OptAccount :
          Tick /\ import_tabular(user, filename, upload.content, upload.mapping_json, account_id)
    \/ \E user \in Users, ym \in ReportMonths : Tick /\ monthly(user, ym[1], ym[2])

SpecReport == Init /\ [][NextReport]_vars

\* Imports of rows whose description carries an installment marker
MarkerUploads ==
    {[content |-> [readable |-> TRUE, rows |-> rows], mapping_json |-> AbsentJson] :
        rows \in {<<RowParcela, RowSlash>>, <<RowSlash>>, <<RowPao, RowParcela>>}}

NextMarker ==
    \E user \in Users, filename \in FileNames, upload \in MarkerUploads,
       account_id \in OptAccount :
       Tick /\ import_tabular(user, filename, upload.content, upload.mapping_json, account_id)

SpecMarker == Init /\ [][NextMarker]_vars

\* Imports of one owner served by two workers at a time
RaceUploads ==
    {[content |-> [readable |-> TRUE, rows |-> rows], mapping_json |-> AbsentJson] :
        rows \in {<<RowPao>>, <<RowPao, RowCha>>, <<RowBadDate, RowPao>>}}

NextRace ==
    \/ \E p \in Procs, user \in Users, filename \in FileNames, upload \in RaceUploads,
          account_id \in OptAccount :
          import_begin(p, user, filename, upload.content, upload.mapping_json, account_id)
    \/ \E p \in Procs : import_check(p)
    \/ \E p \in Procs : import_insert(p)
    \/ \E p \in Procs : import_commit(p)

SpecRace == Init /\ [][NextRace]_vars

\* Imports of files exported with Portuguese headers and of the same files
\* with English headers: the two lines of the test, its first line alone,
\* and a file with a line that fails, each in both orders of the columns
LocaleFiles ==
    {[i \in DOMAIN cells |-> LocaleRow(hs, cells[i], order)] :
        hs \in {PtHeaders, EnHeaders}, order \in ColumnOrders,
        cells \in {<<C_Cha, C_Sal>>, <<C_Pao, C_Bad>>, <<C_Cha>>}}
LocaleUploads ==
    {[content |-> [readable |-> TRUE, rows |-> rows], mapping_json |-> AbsentJson] :
        rows \in LocaleFiles}

NextLocale ==
    \E user \in Users, filename \in FileNames, upload \in LocaleUploads :
       Tick /\ import_tabular(user, filename, upload.content, upload.mapping_json, NULL)

SpecLocale == Init /\ [][NextLocale]_vars

\* Imports of one line whose amount is a text with sign characters and markers
AmountUploads ==
    {[content |-> [readable |-> TRUE, rows |-> <<r>>], mapping_json |-> AbsentJson] :
        r \in AmountRows}

NextAmount ==
    \E user \in Users, filename \in FileNames, upload \in AmountUploads :
       Tick /\ import_tabular(user, filename, upload.content, upload.mapping_json, NULL)

SpecAmount == Init /\ [][NextAmount]_vars

\* Manual entries on three days and the sorted listing of the transactions
SortPayloads ==
    [date : {<<2026, 2, 1>>, <<2026, 2, 2>>, <<2026, 2, 3>>}, description : {D_Pao},
     amount_cents : {1000, 2000, 3000}, category_id : OptCategory, account_id : {NULL}]
ListParams ==
    [start_date : {<<>>, <<2026, 2, 2>>}, end_date : {<<>>}, category_id : {NULL},
     account_id : {NULL}, query : {<<>>, <<"p", "a">>},
     sort_by : {"date", "amount_cents"}, sort_order : {"asc", "desc"}]

NextList ==
    \/ \E user \in Users, payload \in SortPayloads : Tick /\ create_transaction(user, payload)
    \/ \E user \in Users, params \in ListParams : Tick /\ list_transactions(user, params)

SpecList == Init /\ [][NextList]_vars

\* Installment groups next to a manual entry and an import
InstallmentGroupIn(start_date, base_description, total_cents, amount_per_installment_cents, installments, interval_months, account_id) ==
    [start_date |-> start_date, base_description |-> base_description,
     total_cents |-> total_cents,
     amount_per_installment_cents |-> amount_per_installment_cents,
     installments |-> installments, interval_months |-> interval_months,
     account_id |-> account_id, category_id |-> NULL]

\* Three installments of a total that leaves a remainder, from the last day
\* of January; two of a negative total every other month, over the end of the
\* year; three of 50 each; one with both amounts given; and two requests
\* that are refused
InstallmentPayloads ==
    {InstallmentGroupIn(<<2026, 1, 31>>, D_Gas, 100, NULL, 3, 1, NULL),
     InstallmentGroupIn(<<2026, 11, 15>>, <<" ", "G", "a", "s", " ">>, -101, NULL, 2, 2, 1),
     InstallmentGroupIn(<<2026, 1, 31>>, D_Gas, NULL, 50, 3, 1, 1),
     InstallmentGroupIn(<<2026, 1, 31>>, D_Pao, 100, 50, 1, 1, NULL),
     InstallmentGroupIn(<<2026, 1, 31>>, D_Gas, 100, NULL, 0, 1, NULL),
     InstallmentGroupIn(<<2026, 1, 31>>, D_Gas, NULL, NULL, 2, 1, NULL)}

NextGroup ==
    \/ \E user \in Users, payload \in InstallmentPayloads : Tick /\ create_group(user, payload)
    \/ \E user \in Users, id \in GroupIds : Tick /\ delete_group(user, id)
    \/ \E user \in Users, payload \in EditPayloads : Tick /\ create_transaction(user, payload)
    \/ \E user \in Users, filename \in FileNames, upload \in EditUploads :
          Tick /\ import_tabular(user, filename, upload.content, upload.mapping_json, NULL)

SpecGroup == Init /\ [][NextGroup]_vars

\* Categories of two owners and imports of lines that name a category
CategoryPayloads == {[name |-> n] : n \in {<<" ", "B", "a", "r">>, N_bar, N_Luz, <<" ">>}}
CategoryUploads ==
    {[content |-> [readable |-> TRUE, rows |-> <<r>>], mapping_json |-> AbsentJson] :
        r \in CategoryRows}

NextCategory ==
    \/ \E user \in Users, payload \in CategoryPayloads : Tick /\ create_category(user, payload)
    \/ \E user \in Users : Tick /\ list_categories(user)
    \/ \E user \in Users, filename \in FileNames, upload \in CategoryUploads :
          Tick /\ import_tabular(user, filename, upload.content, upload.mapping_json, NULL)

SpecCategory == Init /\ [][NextCategory]_vars

\* Imports of lines under several sets of headers
HeaderUploads ==
    {[content |-> [readable |-> TRUE, rows |-> rows], mapping_json |-> AbsentJson] :
        rows \in {<<RowSharedHeader>>, <<RowPao>>, <<RowNoDateColumn>>,
                   <<LocaleRow(PtHeaders, C_Cha, <<1, 2, 3>>)>>,
                   <<LocaleRow(EnHeaders, C_Sal, <<3, 2, 1>>), RowSharedHeader>>,
                   <<CategoryRow(N_Luz)>>}}

NextHeader ==
    \E user \in Users, filename \in FileNames, upload \in HeaderUploads,
       account_id \in OptAccount :
       Tick /\ import_tabular(user, filename, upload.content, upload.mapping_json, account_id)

SpecHeader == Init /\ [][NextHeader]_vars

\* One import that leaves a row for review, and confirms of the row served
\* by two workers at a time
ReviewUploads ==
    {[content |-> [readable |-> TRUE, rows |-> <<RowBadDate>>], mapping_json |-> AbsentJson]}

NextConfirmRace ==
    \/ \E user \in Users, filename \in FileNames, upload \in ReviewUploads,
          account_id \in OptAccount :
          Tick /\ import_tabular(user, filename, upload.content, upload.mapping_json, account_id)
    \/ \E p \in Procs, user \in Users, id \in ItemIds, payload \in Payloads :
          confirm_begin(p, user, id, payload)
    \/ \E p \in Procs : confirm_check(p)
    \/ \E p \in Procs : confirm_duplicate(p)
    \/ \E p \in Procs : confirm_insert(p)
    \/ \E p \in Procs : confirm_commit(p)

SpecConfirmRace == Init /\ [][NextConfirmRace]_vars

(***************************************************************************)
(* Properties of the requests.  A property of one request is a property of *)
(* every step: resp' holds the request the step served and its response,   *)
(* the unprimed variables the store before it, the primed ones the store   *)
(* after it.                                                               *)
(***************************************************************************)
\* The step served POST /imports/tabular and the rows of the file were
\* processed (the request was answered 200)
Imported == resp'.op = "import_tabular" /\ resp'.code = 200

\* The step served PATCH /imports/pending/{id}/confirm
Confirmed == resp'.op = "confirm_pending_row"

\* Row numbers of the rows of a file that fail to normalise
FailingRows(rows) == {i \in DOMAIN rows : ~Normalized[rows[i], NoMapping].ok}

\* Dedupe key of a row that normalises, imported against account_id
RowKey(row, account_id) ==
    LET n == Normalized[row, NoMapping]
    IN  build_dedupe_hash(n.date, n.description, n.amount_cents, account_scope(account_id))

\* Dedupe keys stored for an owner and an account (NULL: no account)
StoredKeys(rows, user, account_id) ==
    {t.dedupe_hash : t \in {x \in rows : x.user_id = user /\ x.account_id = account_id}}

\* The item a confirm request names is there, the caller's, and pending
Eligible(user, id) ==
    /\ id \in DOMAIN items
    /\ items[id].user_id = user
    /\ items[id].status = "pending"

\* The account a confirm resolves to: the corrected one, else the suggested one
ResolvedAccount(payload, item) ==
    IF payload.account_id # NULL THEN payload.account_id ELSE item.resolved_account_id

\* Transactions of the owner in the resolved account that the corrected
\* fields of a confirm request collide with
Matches(user, payload, item) ==
    LET account == ResolvedAccount(payload, item)
        key == build_dedupe_hash(payload.date, payload.description, payload.amount_cents,
                                 account_scope(account))
    IN  {t \in txs : t.user_id = user /\ t.account_id = account /\ t.dedupe_hash = key}

\* C1: in every reachable state no two stored transactions have the same
\* owner id, account id and dedupe hash, transactions without an account
\* (account scope "none") included.
C1_UniqueDedupeKey ==
    \A t1, t2 \in txs :
        (/\ t1.user_id = t2.user_id
         /\ t1.account_id = t2.account_id
         /\ t1.dedupe_hash = t2.dedupe_hash) => t1.id = t2.id

\* C2: an import of a file whose rows all normalise inserts one transaction
\* per dedupe key of the file that the owner has not stored in the account
\* yet and counts every other row as a duplicate (inserted = N, duplicates = 0
\* for N distinct rows into an account that holds none of them); importing the
\* same file again, same owner and same account (or no account both times),
\* right after, reports inserted = 0, duplicates = number of rows, and adds no
\* transaction.
C2_IdempotentReimport ==
    [][(Imported /\ FailingRows(resp'.content.rows) = {}) =>
          LET rows == resp'.content.rows
              keys == {RowKey(rows[i], resp'.account_id) : i \in DOMAIN rows}
              stored == StoredKeys(txs, resp'.user, resp'.account_id)
              again == /\ resp.op = "import_tabular"
                       /\ resp.user = resp'.user
                       /\ resp.account_id = resp'.account_id
                       /\ resp.content = resp'.content
                       /\ resp.mapping_json = resp'.mapping_json
          IN  /\ resp'.inserted = Cardinality(keys \ stored)
              /\ resp'.duplicates = Len(rows) - resp'.inserted
              /\ resp'.pending = 0
              /\ Cardinality(txs') = Cardinality(txs) + resp'.inserted
              /\ again => /\ resp'.inserted = 0
                          /\ resp'.duplicates = Len(rows)
                          /\ txs' = txs]_vars

\* The second of two imports of the file Pao, Cha in a row: both rows were
\* inserted by the first import and are duplicates now
C2_Witness ==
    /\ resp.op = "import_tabular"
    /\ resp.code = 200
    /\ resp.content.rows = <<RowPao, RowCha>>
    /\ resp.inserted = 0
    /\ resp.duplicates = 2
    /\ Len(imports) = 2
    /\ items = <<>>
    /\ Cardinality(txs) = 2
    /\ \A t \in txs : t.import_id = 1

C4_JobStatus ==
    [][Imported =>
          /\ resp'.import_id = Len(imports')
          /\ imports'[resp'.import_id].status =
                IF resp'.pending > 0 /\ resp'.inserted = 0 THEN "needs_review"
                ELSE IF resp'.pending > 0 /\ resp'.inserted > 0 THEN "partial"
                ELSE "ok"]_vars

\* An import of duplicates only has ended ok, after one that ended
\* needs_review and one that ended partial
C4_Witness ==
    /\ resp.op = "import_tabular"
    /\ resp.code = 200
    /\ resp.inserted = 0
    /\ resp.pending = 0
    /\ resp.duplicates > 0
    /\ imports[resp.import_id].status = "ok"
    /\ \E i, j \in DOMAIN imports :
          /\ imports[i].status = "needs_review" /\ imports[i].notes[1].row = 1
          /\ imports[j].status = "partial"

\* C5: every import attempt adds one ImportJob and leaves the earlier ones
\* alone; when the parser fails, the request is answered with an error, the
\* job is stored with status needs_review and the parse error in its notes,
\* and no transaction and no review item is created.
C5_ParserFailure ==
    [][resp'.op = "import_tabular" =>
          LET job == imports'[Len(imports')]
          IN  /\ Len(imports') = Len(imports) + 1
              /\ \A i \in DOMAIN imports : imports'[i] = imports[i]
              /\ job.user_id = resp'.user
              /\ (resp'.code = 400) <=> ~resp'.content.readable
              /\ ~resp'.content.readable =>
                    /\ job.status = "needs_review"
                    /\ \E i \in DOMAIN job.notes : job.notes[i].error.kind = "parse_error"
                    /\ txs' = txs
                    /\ items' = items]_vars

\* The part of C5 about a file the parser rejects: answered 400, one job
\* added with status needs_review and the parse error in its notes, no
\* transaction and no review item created
ParserFailureHandled ==
    [][(resp'.op = "import_tabular" /\ ~resp'.content.readable) =>
          LET job == imports'[Len(imports')]
          IN  /\ resp'.code = 400
              /\ Len(imports') = Len(imports) + 1
              /\ \A i \in DOMAIN imports : imports'[i] = imports[i]
              /\ job.user_id = resp'.user
              /\ job.status = "needs_review"
              /\ \E i \in DOMAIN job.notes : job.notes[i].error.kind = "parse_error"
              /\ txs' = txs
              /\ items' = items]_vars

\* Each failing row of an import made exactly one review item, pending, the
\* importer's, attached to the import's job, with the row's 1-based number,
\* the raw row, the error as raised and the target account as suggested
\* account; the pending count of the response is the number of items made
C6_Items ==
    LET rows == resp'.content.rows
        failing == FailingRows(rows)
        created == (Len(items) + 1)..Len(items')
    IN  /\ resp'.pending = Cardinality(created)
        /\ resp'.pending = Cardinality(failing)
        /\ \A k \in failing :
              /\ Cardinality({i \in created : items'[i].row_number = k}) = 1
              /\ \A i \in created :
                    items'[i].row_number = k =>
                        /\ items'[i].status = "pending"
                        /\ items'[i].user_id = resp'.user
                        /\ items'[i].import_id = resp'.import_id
                        /\ items'[i].raw_data = rows[k]
                        /\ items'[i].error = Normalized[rows[k], NoMapping].error
                        /\ items'[i].resolved_account_id = resp'.account_id

\* The file has one failing row among rows that normalise
C6_OneBadRow ==
    /\ Cardinality(FailingRows(resp'.content.rows)) = 1
    /\ Len(resp'.content.rows) > 1

\* C6: each row whose mapping or value normalisation fails creates exactly
\* one pending ImportReviewItem, owned by the importing user, attached to the
\* import's job, carrying the row's 1-based number, the raw row, the error
\* message and the target account as suggested account; the pending count
\* reported is the number of items created; a batch with one such row among
\* valid rows reports pending = 1, with job status partial when at least one
\* valid row is inserted and needs_review when every valid row is a duplicate.
C6_ReviewItems ==
    [][Imported =>
          /\ C6_Items
          /\ C6_OneBadRow =>
                /\ resp'.pending = 1
                /\ imports'[resp'.import_id].status =
                      IF resp'.inserted > 0 THEN "partial" ELSE "needs_review"]_vars

\* C6 as stated: as above, but a batch with one failing row among valid rows
\* always reports pending = 1 with job status partial.
C6_AsStated ==
    [][Imported =>
          /\ C6_Items
          /\ C6_OneBadRow =>
                /\ resp'.pending = 1
                /\ imports'[resp'.import_id].status = "partial"]_vars

\* One failing row among valid rows that are all stored already, against an
\* account: one review item suggesting that account, and the job needs_review
C6_Witness ==
    /\ resp.op = "import_tabular"
    /\ resp.code = 200
    /\ resp.content.rows = <<RowBadDate, RowPao, RowPao>>
    /\ resp.account_id = 1
    /\ resp.pending = 1
    /\ resp.inserted = 0
    /\ resp.duplicates = 2
    /\ imports[resp.import_id].status = "needs_review"
    /\ items[Len(items)].import_id = resp.import_id
    /\ items[Len(items)].row_number = 1
    /\ items[Len(items)].resolved_account_id = 1

\* C7: confirm succeeds exactly on an item that exists, belongs to the
\* caller and is pending, and moves it to resolved or duplicate, leaving every
\* other item alone; on any other item it answers not-found and changes no
\* transaction, review item or job; an item changes status only by such a
\* move, and an item that is resolved or duplicate never changes again.
C7_ActedOnAtMostOnce ==
    [][/\ \A i \in DOMAIN items :
             /\ i \in DOMAIN items'
             /\ items[i].status \in {"resolved", "duplicate"} => items'[i] = items[i]
             /\ items'[i].status # items[i].status =>
                   /\ Confirmed
                   /\ resp'.id = i
                   /\ items[i].status = "pending"
                   /\ items'[i].status \in {"resolved", "duplicate"}
       /\ Confirmed =>
             IF Eligible(resp'.user, resp'.id)
             THEN /\ resp'.code = 200
                  /\ items'[resp'.id].status \in {"resolved", "duplicate"}
                  /\ items'[resp'.id].status = resp'.status
                  /\ DOMAIN items' = DOMAIN items
                  /\ \A j \in DOMAIN items \ {resp'.id} : items'[j] = items[j]
             ELSE /\ resp'.code = 404
                  /\ txs' = txs
                  /\ items' = items
                  /\ imports' = imports]_vars

\* The owner of an item confirmed it a second time and got not-found
C7_Witness ==
    /\ resp.op = "confirm_pending_row"
    /\ resp.code = 404
    /\ resp.id \in DOMAIN items
    /\ items[resp.id].user_id = resp.user
    /\ items[resp.id].status \in {"resolved", "duplicate"}

\* C8: confirming a pending item of the caller with corrected fields that
\* collide with no transaction of the owner in the resolved account creates
\* exactly one transaction, with source import_review, the corrected date,
\* description, amount and category, the resolved account and the item's
\* import id; the item gets those fields and status resolved; the response
\* is resolved with the new transaction's id.
C8_ConfirmResolved ==
    [][(/\ Confirmed
        /\ Eligible(resp'.user, resp'.id)
        /\ Matches(resp'.user, resp'.payload, items[resp'.id]) = {}) =>
          LET item == items[resp'.id]
              payload == resp'.payload
              account == ResolvedAccount(payload, item)
          IN  /\ resp'.code = 200
              /\ resp'.status = "resolved"
              /\ txs \subseteq txs'
              /\ Cardinality(txs' \ txs) = 1
              /\ \A t \in txs' \ txs :
                    /\ t.id = resp'.transaction_id
                    /\ \A o \in txs : o.id # t.id
                    /\ t.user_id = resp'.user
                    /\ t.source = "import_review"
                    /\ t.date = payload.date
                    /\ t.description = payload.description
                    /\ t.amount_cents = payload.amount_cents
                    /\ t.category_id = payload.category_id
                    /\ t.account_id = account
                    /\ t.import_id = item.import_id
              /\ items'[resp'.id] = [item EXCEPT !.status = "resolved",
                                                 !.resolved_date = payload.date,
                                                 !.resolved_description = payload.description,
                                                 !.resolved_amount_cents = payload.amount_cents,
                                                 !.resolved_category_id = payload.category_id,
                                                 !.resolved_account_id = account]]_vars

\* An item was resolved without a corrected account: the new transaction is
\* in the account the import suggested
C8_Witness ==
    /\ resp.op = "confirm_pending_row"
    /\ resp.code = 200
    /\ resp.status = "resolved"
    /\ resp.payload.account_id = NULL
    /\ items[resp.id].status = "resolved"
    /\ items[resp.id].resolved_account_id = 1
    /\ \E t \in txs : /\ t.id = resp.transaction_id
                      /\ t.source = "import_review"
                      /\ t.account_id = 1
                      /\ t.import_id = items[resp.id].import_id

\* C9: confirming a pending item of the caller with corrected fields whose
\* dedupe hash collides with a transaction of the owner in the resolved
\* account sets the item to duplicate and nothing else, creates and changes no
\* transaction, and the response is duplicate with the id of a transaction
\* collided with.
C9_ConfirmDuplicate ==
    [][(/\ Confirmed
        /\ Eligible(resp'.user, resp'.id)
        /\ Matches(resp'.user, resp'.payload, items[resp'.id]) # {}) =>
          /\ resp'.code = 200
          /\ resp'.status = "duplicate"
          /\ \E t \in Matches(resp'.user, resp'.payload, items[resp'.id]) :
                t.id = resp'.transaction_id
          /\ txs' = txs
          /\ items'[resp'.id] = [items[resp'.id] EXCEPT !.status = "duplicate"]]_vars

\* An item without an account was confirmed into a duplicate of an imported
\* transaction whose description differs in case and spacing
C9_Witness ==
    /\ resp.op = "confirm_pending_row"
    /\ resp.code = 200
    /\ resp.status = "duplicate"
    /\ items[resp.id].status = "duplicate"
    /\ items[resp.id].resolved_account_id = NULL
    /\ resp.payload.account_id = NULL
    /\ \E t \in txs : /\ t.id = resp.transaction_id
                      /\ t.account_id = NULL
                      /\ t.description # resp.payload.description

\* C10: after a confirm has moved the last pending item of a job to
\* resolved or to duplicate, a job that was needs_review or partial is ok;
\* while a pending item of the job remains, the confirm leaves the status of
\* the job as it was.
C10_JobClosed ==
    [][(Confirmed /\ resp'.code = 200) =>
          LET job == items[resp'.id].import_id
              remaining == {i \in DOMAIN items' : /\ items'[i].import_id = job
                                                  /\ items'[i].status = "pending"}
          IN  /\ (remaining = {} /\ imports[job].status \in {"needs_review", "partial"}) =>
                    imports'[job].status = "ok"
              /\ remaining # {} => imports'[job].status = imports[job].status]_vars
\* C11: the status of a stored job changes only in a step that serves a
\* review confirm on one of the job's items, and only from needs_review or
\* partial to ok; every other request (import, manual entry, edit, deletion,
\* installment group) leaves every stored job as it is, and no job is removed.
C11_JobStatusFrame ==
    [][/\ Len(imports') >= Len(imports)
       /\ \A j \in DOMAIN imports :
             IF imports'[j].status # imports[j].status
             THEN /\ resp'.op = "confirm_pending_row"
                  /\ resp'.code = 200
                  /\ items[resp'.id].import_id = j
                  /\ imports[j].status \in {"needs_review", "partial"}
                  /\ imports'[j].status = "ok"
                  /\ [imports'[j] EXCEPT !.status = imports[j].status] = imports[j]
             ELSE imports'[j] = imports[j]]_vars

\* A job closed by a confirm is still ok after a later import by its owner
\* that ended waiting for review
C11_Witness ==
    /\ resp.op = "import_tabular"
    /\ resp.code = 200
    /\ resp.pending > 0
    /\ \E j \in DOMAIN imports :
          /\ j < resp.import_id
          /\ imports[j].user_id = resp.user
          /\ imports[j].status = "ok"
          /\ \E i \in DOMAIN items : items[i].import_id = j /\ items[i].status = "resolved"

\* The (date, description, amount) of a row as the dedupe compares them
Content(date, description, amount_cents) ==
    <<date, Lower(normalize_description(description)), amount_cents>>

\* C12: an import inserts one transaction for every (date, description,
\* amount) of its rows that the owner has not stored in the account the import
\* is made against; what the owner stores in another account, or without an
\* account, does not count (and for an import without account, what is stored
\* in an account does not count).  Every inserted transaction is in the
\* account of the import.
C12_AccountScoped ==
    [][Imported =>
          LET rows == resp'.content.rows
              valid == DOMAIN rows \ FailingRows(rows)
              contents == {Content(Normalized[rows[i], NoMapping].date,
                                   Normalized[rows[i], NoMapping].description,
                                   Normalized[rows[i], NoMapping].amount_cents) : i \in valid}
              here == {Content(t.date, t.description, t.amount_cents) :
                          t \in {x \in txs : /\ x.user_id = resp'.user
                                              /\ x.account_id = resp'.account_id}}
          IN  /\ resp'.inserted = Cardinality(contents \ here)
              /\ \A c \in contents \ here :
                    \E t \in txs' \ txs :
                       /\ Content(t.date, t.description, t.amount_cents) = c
                       /\ t.user_id = resp'.user
                       /\ t.account_id = resp'.account_id
              /\ Cardinality(txs' \ txs) = resp'.inserted]_vars

\* One owner holds the same row three times: without account, in account 1
\* and in account 2, each inserted by an import of its own
C12_Witness ==
    /\ resp.op = "import_tabular"
    /\ resp.code = 200
    /\ resp.inserted = 1
    /\ resp.account_id = 1
    /\ \E a, b, d \in txs :
          /\ a.user_id = resp.user /\ b.user_id = resp.user /\ d.user_id = resp.user
          /\ a.account_id = NULL /\ b.account_id = 1 /\ d.account_id = 2
          /\ b.import_id = resp.import_id
          /\ Content(a.date, a.description, a.amount_cents)
                = Content(b.date, b.description, b.amount_cents)
          /\ Content(d.date, d.description, d.amount_cents)
                = Content(b.date, b.description, b.amount_cents)

\* C13: an import served next to other imports ends as it would alone: it is
\* answered 200, only the rows that fail to normalise are pending, every
\* other row is inserted or counted as a duplicate, and after it exactly one
\* transaction of the owner in the account holds each such row (a row that
\* another import inserted in between is counted as a duplicate).
C13_RaceCountsDuplicate ==
    [][\A p \in Procs :
          (sessions[p].pc = "check" /\ sessions'[p].pc = "idle") =>
              LET rows == sessions[p].rows
                  valid == DOMAIN rows \ FailingRows(rows)
                  held(i) == {t \in txs' :
                                 /\ t.user_id = sessions[p].user
                                 /\ t.account_id = sessions[p].account_id
                                 /\ Content(t.date, t.description, t.amount_cents)
                                       = Content(Normalized[rows[i], NoMapping].date,
                                                 Normalized[rows[i], NoMapping].description,
                                                 Normalized[rows[i], NoMapping].amount_cents)}
              IN  /\ resp'.code = 200
                  /\ resp'.pending = Cardinality(FailingRows(rows))
                  /\ resp'.inserted + resp'.duplicates + resp'.pending = Len(rows)
                  /\ \A i \in valid : Cardinality(held(i)) = 1]_vars

\* str(n) for 0 <= n <= 99
Decimal(n) ==
    IF n < 10 THEN <<DigitChars[n + 1]>>
    ELSE <<DigitChars[(n \div 10) + 1], DigitChars[(n % 10) + 1]>>

\* '{base} ({i}/{n})'
MarkerDescription(base, i, n) ==
    base \o <<" ", "(">> \o Decimal(i) \o <<"/">> \o Decimal(n) \o <<")">>

\* The marker of row i of a file, for a row that normalises
MarkerOf(rows, i) == extract_installment_info(Normalized[rows[i], NoMapping].description)

\* C14: after an import, every row that normalises and whose description
\* carries a valid marker of total M > 1 has, for each index i in 1..M, a
\* transaction of the owner in the account of the import dated the row's
\* date plus (i - 1) months, described '{base} ({i}/{M})', with the row's
\* amount, a dedupe hash built from these fields, and no installment group.
C14_MarkerExpands ==
    [][Imported =>
          LET rows == resp'.content.rows
          IN  \A r \in DOMAIN rows \ FailingRows(rows) :
                 MarkerOf(rows, r).found =>
                    \A i \in 1..MarkerOf(rows, r).total :
                       \E t \in txs' :
                          /\ t.user_id = resp'.user
                          /\ t.account_id = resp'.account_id
                          /\ t.date = add_months(Normalized[rows[r], NoMapping].date, i - 1)
                          /\ t.description = MarkerDescription(MarkerOf(rows, r).base_description,
                                                               i, MarkerOf(rows, r).total)
                          /\ t.amount_cents = Normalized[rows[r], NoMapping].amount_cents
                          /\ t.dedupe_hash = build_dedupe_hash(t.date, t.description,
                                                               t.amount_cents,
                                                               account_scope(t.account_id))
                          /\ t.installment_group_id = NULL]_vars

\* Transactions a row is to insert: total - current + 1 with a marker, else 1
Expected(rows, i) ==
    IF MarkerOf(rows, i).found
    THEN MarkerOf(rows, i).total - MarkerOf(rows, i).current + 1
    ELSE 1

RECURSIVE ExpectedSum(_, _)
ExpectedSum(rows, n) == IF n = 0 THEN 0 ELSE ExpectedSum(rows, n - 1) + Expected(rows, n)

\* C15: an import, into an account where the owner holds nothing, of rows
\* that all normalise and differ inserts total - current + 1 transactions for
\* a row marked (current/total), one per index current..total, each described
\* '{base} ({index}/{total})', and one for any other row: 7 for a row marked
\* 'Parcela 01 de 04' and a row marked '(10/12)'.
C15_MarkerInserted ==
    [][(/\ Imported
        /\ FailingRows(resp'.content.rows) = {}
        /\ \A i, j \in DOMAIN resp'.content.rows :
              resp'.content.rows[i] = resp'.content.rows[j] => i = j
        /\ StoredKeys(txs, resp'.user, resp'.account_id) = {}) =>
          LET rows == resp'.content.rows
          IN  /\ resp'.inserted = ExpectedSum(rows, Len(rows))
              /\ \A r \in DOMAIN rows :
                    MarkerOf(rows, r).found =>
                       \A i \in MarkerOf(rows, r).current..MarkerOf(rows, r).total :
                          \E t \in txs' \ txs :
                             t.description = MarkerDescription(MarkerOf(rows, r).base_description,
                                                              i, MarkerOf(rows, r).total)]_vars

\* C16: the dedupe hash of every stored transaction is the Dedupe Key
\* Builder's value for the date, description, amount and account scope the
\* transaction holds now (after an edit: for the edited fields).
C16_HashOfFields ==
    \A t \in txs :
       t.dedupe_hash = build_dedupe_hash(t.date, t.description, t.amount_cents,
                                         IF t.account_id = NULL THEN 0 ELSE t.account_id)

\* An imported transaction has been edited into account 1: its amount is not
\* the one of the import any more
C16_Witness ==
    /\ resp.op = "update_transaction"
    /\ resp.code = 200
    /\ \E t \in txs :
          /\ t.id = resp.id
          /\ t.source = "csv"
          /\ t.amount_cents > 0
          /\ t.account_id = 1
          /\ imports[t.import_id].user_id = t.user_id
          /\ resp.payload.account_id = 1

\* The step served an edit of a transaction of the caller
Edited == resp'.op = "update_transaction" /\ \E t \in txs : t.id = resp'.id /\ t.user_id = resp'.user

\* The transaction the edit names
Target == CHOOSE t \in txs : t.id = resp'.id /\ t.user_id = resp'.user

\* The payload of the edit holds the fields the transaction has
OwnValues(p, tx) ==
    /\ p.date = tx.date
    /\ p.description = tx.description
    /\ p.amount_cents = tx.amount_cents
    /\ p.category_id = tx.category_id
    /\ p.account_id = tx.account_id

\* Transactions of the owner, other than tx, in the account with the hash
Colliding(tx, account_id, hash) ==
    {t \in txs : /\ t.user_id = tx.user_id
                 /\ t.id # tx.id
                 /\ t.account_id = account_id
                 /\ t.dedupe_hash = hash}

\* C17: an edit whose fields give the transaction the (owner, account,
\* dedupe hash) of another transaction of the owner is answered 409 and
\* changes no transaction; an edit of a transaction to the fields it has is
\* answered 200.
C17_EditConflict ==
    [][Edited =>
          LET p == resp'.payload
              hash == build_dedupe_hash(p.date, p.description, p.amount_cents,
                                        account_scope(p.account_id))
          IN  /\ (Colliding(Target, p.account_id, hash) # {} /\ ~OwnValues(p, Target)) =>
                    (resp'.code = 409 /\ txs' = txs)
              /\ OwnValues(p, Target) => resp'.code = 200]_vars

\* The part of C17 that holds of the fields an edit stores (the amount
\* without its sign): a collision with another transaction of the owner is
\* answered 409 and changes nothing, any other edit of a transaction of the
\* caller is answered 200
EditConflictAsStored ==
    [][Edited =>
          LET p == resp'.payload
              hash == build_dedupe_hash(p.date, p.description, Abs(p.amount_cents),
                                        account_scope(p.account_id))
          IN  IF Colliding(Target, p.account_id, hash) # {}
              THEN resp'.code = 409 /\ UNCHANGED store
              ELSE resp'.code = 200]_vars

\* n and m are both negative, both zero or both positive
SameSign(n, m) == (n < 0 <=> m < 0) /\ (n > 0 <=> m > 0)

\* C18: every request that stores a transaction stores the amount with the
\* sign it was submitted with: a manual entry, an edit and a confirm store
\* the amount of the payload, an import stores the parsed amount of the row,
\* and the transactions of an installment group have the sign of the total
\* (or of the amount per installment) of the payload.
C18_SignKept ==
    [][/\ (resp'.op = "create_transaction" /\ resp'.code = 201) =>
             \E t \in txs' \ txs :
                t.id = resp'.id /\ t.amount_cents = resp'.payload.amount_cents
       /\ (resp'.op = "update_transaction" /\ resp'.code = 200) =>
             \E t \in txs' :
                t.id = resp'.id /\ t.amount_cents = resp'.payload.amount_cents
       /\ (resp'.op = "confirm_pending_row" /\ resp'.code = 200
                /\ resp'.status = "resolved") =>
             \E t \in txs' \ txs :
                t.id = resp'.transaction_id /\ t.amount_cents = resp'.payload.amount_cents
       /\ Imported =>
             \A t \in txs' \ txs :
                \E i \in DOMAIN resp'.content.rows \ FailingRows(resp'.content.rows) :
                   /\ t.amount_cents = Normalized[resp'.content.rows[i], NoMapping].amount_cents
                   /\ Content(t.date, t.description, t.amount_cents)
                         = Content(Normalized[resp'.content.rows[i], NoMapping].date,
                                   Normalized[resp'.content.rows[i], NoMapping].description,
                                   Normalized[resp'.content.rows[i], NoMapping].amount_cents)
       /\ (resp'.op = "create_group" /\ resp'.code = 201) =>
             \A t \in txs' \ txs :
                SameSign(t.amount_cents,
                         IF resp'.payload.total_cents # NULL THEN resp'.payload.total_cents
                         ELSE resp'.payload.amount_per_installment_cents)]_vars

\* C19: the monthly report of a caller for (year, month) returns as
\* total_expenses_cents the sum of the negative amounts and as
\* total_income_cents the sum of the positive amounts of the caller's
\* transactions dated in that month (the amounts stored are the amounts
\* submitted, C18): -5000 and 800000 after entries of -5000 and 800000.
C19_MonthlyTotals ==
    [][resp'.op = "monthly" =>
          LET mine == {t \in txs : /\ t.user_id = resp'.user
                                   /\ t.date[1] = resp'.year
                                   /\ t.date[2] = resp'.month}
          IN  /\ resp'.total_expenses_cents = SumAmounts({t \in mine : t.amount_cents < 0})
              /\ resp'.total_income_cents = SumAmounts({t \in mine : t.amount_cents > 0})]_vars

status_get(entry) == IF "status" \in DOMAIN entry THEN entry.status ELSE "absent"

\* C21: the rows an import counts as duplicates are visible in the review
\* listing as entries whose status is 'duplicate', one per row: a listing
\* that follows an import of the same owner holds at least as many entries
\* with status 'duplicate' as the import counted.
C21_DuplicatesListed ==
    [][(/\ resp.op = "import_tabular"
        /\ resp.code = 200
        /\ resp'.op = "list_pending_import_rows"
        /\ resp'.user = resp.user)
       => Cardinality({k \in DOMAIN resp'.body : status_get(resp'.body[k]) = "duplicate"})
             >= resp.duplicates]_vars

\* The Category Oracle of the import test: it answers 'Restaurante' for
\* every description
fake_suggest(description, amount_cents, existing_categories) ==
    <<"R", "e", "s", "t", "a", "u", "r", "a", "n", "t", "e">>

\* C22: when an imported row is an expense without category and the
\* Category Oracle returns a name, the transaction the import inserts for it
\* carries the id of a category of the owner with that name (found or
\* created by the import), and the row is counted as inserted.
C22_OracleCategoryAttached ==
    [][Imported =>
          /\ resp'.inserted = Cardinality(txs' \ txs)
          /\ \A t \in txs' \ txs :
                t.amount_cents < 0 =>
                   \E c \in categories' :
                      /\ c.user_id = t.user_id
                      /\ Lower(c.name)
                            = Lower(fake_suggest(t.description, t.amount_cents,
                                                 {d.name : d \in {x \in categories :
                                                                     x.user_id = t.user_id}}))
                      /\ t.category_id = c.id]_vars

\* The header of the other locale for the same logical field
Twin(h) ==
    IF \E f \in 1..3 : PtHeaders[f] = h
    THEN EnHeaders[CHOOSE f \in 1..3 : PtHeaders[f] = h]
    ELSE IF \E f \in 1..3 : EnHeaders[f] = h
    THEN PtHeaders[CHOOSE f \in 1..3 : EnHeaders[f] = h]
    ELSE h

\* The same line under the headers of the other locale
Translate(row) == [i \in DOMAIN row |-> [h |-> Twin(row[i].h), v |-> row[i].v]]

\* The position in the line of the column a key names, 0 when none
ColumnOf(row, key) ==
    IF \E i \in DOMAIN row : row[i].h = key
    THEN CHOOSE i \in DOMAIN row : row[i].h = key
    ELSE 0

\* The columns header inference resolves for date, description and amount
ResolvedColumns(row) ==
    LET keys == infer_mapping(header_keys(row))
    IN  <<ColumnOf(row, keys.date), ColumnOf(row, keys.description), ColumnOf(row, keys.value)>>

\* Header inference and translation over the lines of the model, tabulated once
Columns == [r \in RowSet |-> ResolvedColumns(r)]
TwinRow == [r \in LocaleRows |-> Translate(r)]

\* C23: header inference is locale-invariant. A file with the headers
\* 'Data Lançamento, Estabelecimento, Valor (R$)' and the file with the same
\* cells under 'Date, Description, Amount' resolve the same columns to date,
\* description and amount, and importing either from the same store gives
\* the same transactions (date, description, signed amount) and counts.
C23_LocaleInvariant ==
    [][Imported =>
          \E rows \in {resp'.content.rows} :
             \E twin \in {[i \in DOMAIN rows |-> TwinRow[rows[i]]]} :
                \E other \in {import_rows(twin, resp'.mapping_json.value, resp'.user,
                                          resp'.account_id, "csv", resp'.import_id,
                                          categories, txs, items)} :
                   /\ \A i \in DOMAIN rows :
                         /\ Columns[rows[i]] = Columns[twin[i]]
                         /\ \A k \in 1..3 : Columns[rows[i]][k] # 0
                   /\ other.txs = txs'
                   /\ other.inserted = resp'.inserted
                   /\ other.duplicates = resp'.duplicates
                   /\ other.pending = resp'.pending]_vars

\* The file of the test under Portuguese headers was imported: two
\* transactions, of -4590 and 500000 cents
C23_Witness ==
    /\ resp.op = "import_tabular"
    /\ resp.code = 200
    /\ Len(resp.content.rows) = 2
    /\ resp.content.rows[1][1].h = H_DataLancamento
    /\ resp.inserted = 2
    /\ {t.amount_cents : t \in {x \in txs : x.import_id = resp.import_id}} = {-4590, 500000}

\* The amount text has a debit marker, a credit marker
HasDebitMarker(cell) == \E t \in DebitTokens : Contains(t, Lower(cell.words))
HasCreditMarker(cell) == \E t \in CreditTokens : Contains(t, Lower(cell.words))

\* The number an amount text writes, with the sign of its sign characters
SignedNumber(cell) ==
    LET magnitude == cell.units * 100 + (IF cell.dec = "" THEN 0 ELSE cell.frac)
    IN  IF cell.lead = "-" \/ cell.trail = "-" THEN -magnitude ELSE magnitude

\* C24: on text, markers take precedence over the parsed sign. The amount
\* stored for a text with a debit marker is <= 0 and for a text with a credit
\* marker >= 0, whatever sign characters the number carries; without a
\* marker it is the number with its own sign (a leading or trailing '-'
\* makes it negative).
C24_MarkerPrecedence ==
    [][(Imported /\ resp'.inserted = 1 /\ Len(resp'.content.rows) = 1
          /\ resp'.content.rows[1][3].v.form = "amount")
       => \E cell \in {resp'.content.rows[1][3].v} :
             \A t \in txs' \ txs :
                /\ HasDebitMarker(cell) => t.amount_cents <= 0
                /\ HasCreditMarker(cell) => t.amount_cents >= 0
                /\ (~HasDebitMarker(cell) /\ ~HasCreditMarker(cell))
                      => t.amount_cents = SignedNumber(cell)]_vars

\* What the parser computes: the claim holds for the texts that carry no
\* trailing '-'
MarkerPrecedenceAsCoded ==
    [][(Imported /\ resp'.inserted = 1 /\ Len(resp'.content.rows) = 1
          /\ resp'.content.rows[1][3].v.form = "amount"
          /\ resp'.content.rows[1][3].v.trail = "")
       => \E cell \in {resp'.content.rows[1][3].v} :
             \A t \in txs' \ txs :
                /\ HasDebitMarker(cell) => t.amount_cents <= 0
                /\ HasCreditMarker(cell) => t.amount_cents >= 0
                /\ (~HasDebitMarker(cell) /\ ~HasCreditMarker(cell))
                      => t.amount_cents = SignedNumber(cell)]_vars

\* sequence seq is in the order leq
IsOrdered(seq, leq(_, _)) == \A k \in 1..(Len(seq) - 1) : leq(seq[k], seq[k + 1])

\* C25: a listing with sort_by and sort_order returns the caller's
\* transactions ordered by that field in that direction, whatever order
\* they were created in: dates ascending for date/asc, amounts descending
\* for amount_cents/desc, and so on.
C25_ListingSorted ==
    [][resp'.op = "list_transactions" =>
          \E body \in {resp'.body} :
             /\ \A k \in DOMAIN body :
                   \E t \in txs : t.id = body[k].id /\ t.user_id = resp'.user
             /\ resp'.params.sort_by = "date" /\ resp'.params.sort_order = "asc"
                   => IsOrdered(body, LAMBDA a, b : DateLeq(a.date, b.date))
             /\ resp'.params.sort_by = "date" /\ resp'.params.sort_order = "desc"
                   => IsOrdered(body, LAMBDA a, b : DateLeq(b.date, a.date))
             /\ resp'.params.sort_by = "amount_cents" /\ resp'.params.sort_order = "asc"
                   => IsOrdered(body, LAMBDA a, b : a.amount_cents <= b.amount_cents)
             /\ resp'.params.sort_by = "amount_cents" /\ resp'.params.sort_order = "desc"
                   => IsOrdered(body, LAMBDA a, b : a.amount_cents >= b.amount_cents)]_vars

\* The total of a group request: total_cents, or N times the amount of one
\* installment when no total is given
RequestedTotal(payload) ==
    IF payload.total_cents # NULL THEN payload.total_cents
    ELSE payload.amount_per_installment_cents * payload.installments

\* C26: creating an installment group with N > 0 installments creates
\* exactly N transactions that carry the id of the group, numbered 1..N with
\* installment_total N, the i-th described '{base} (i/N)' and dated the start
\* date plus (i-1)*interval_months months; their amounts sum to the absolute
\* value of the total, the remainder of the division in the last one.
C26_GroupCreatesInstallments ==
    [][(resp'.op = "create_group" /\ resp'.code = 201) =>
          \E payload \in {resp'.payload} :
             \E created \in {{t \in txs' : t.installment_group_id = resp'.id}} :
                \E n \in {payload.installments} :
                   \E each \in {Abs(RequestedTotal(payload)) \div n} :
                      /\ n > 0
                      /\ txs \subseteq txs'
                      /\ txs' \ txs = created
                      /\ Cardinality(created) = n
                      /\ \E g \in groups' \ groups :
                            /\ g.id = resp'.id
                            /\ g.user_id = resp'.user
                            /\ g.installments = n
                      /\ \A i \in 1..n :
                            \E t \in created :
                               /\ t.installment_number = i
                               /\ t.installment_total = n
                               /\ t.user_id = resp'.user
                               /\ t.description
                                     = Strip(payload.base_description)
                                          \o <<" ", "(", ToString(i), "/", ToString(n), ")">>
                               /\ t.date = add_months(payload.start_date,
                                                      (i - 1) * payload.interval_months)
                               /\ t.amount_cents
                                     = IF i < n THEN each
                                       ELSE Abs(RequestedTotal(payload)) - (n - 1) * each
                      /\ SumAmounts(created) = Abs(RequestedTotal(payload))]_vars

\* A group of three installments of a total of 100 was created: the third is
\* of 34 cents and dated the last day of March
C26_Witness ==
    /\ resp.op = "create_group"
    /\ resp.code = 201
    /\ resp.payload.installments = 3
    /\ \E t \in txs :
          /\ t.installment_group_id = resp.id
          /\ t.installment_number = 3
          /\ t.amount_cents = 34
          /\ t.date = <<2026, 3, 31>>

\* C27: deleting an installment group of the caller removes the group and
\* exactly the transactions whose installment_group_id is that group, and
\* leaves every other transaction, group, import and review item as it was;
\* deleting a group that is missing or of another owner is answered
\* not-found and changes nothing.
C27_DeleteGroupFrame ==
    [][resp'.op = "delete_group" =>
          IF \E g \in groups : g.id = resp'.id /\ g.user_id = resp'.user
          THEN /\ resp'.code = 200
               /\ groups' = {g \in groups : g.id # resp'.id}
               /\ txs' = {t \in txs : t.installment_group_id # resp'.id}
               /\ UNCHANGED <<imports, items, categories>>
          ELSE /\ resp'.code = 404
               /\ UNCHANGED store]_vars

\* A group was deleted while another group of the same owner keeps its
\* installments
C27_Witness ==
    /\ resp.op = "delete_group"
    /\ resp.code = 200
    /\ \E t \in txs :
          /\ t.user_id = resp.user
          /\ t.installment_group_id # NULL
          /\ t.installment_group_id # resp.id

\* The category name a line carries in its Categoria column
RowCategory(row) == Normalized[row, NoMapping].category

\* C28: categories are owner-scoped in every operation. A listing returns
\* only categories of the caller; a create answers with a category of the
\* caller, never with one of another owner; an import attaches to a row only
\* a category of the importing owner whose name matches the row's without
\* regard to case, and creates none.
C28_CategoriesOwnerScoped ==
    [][/\ resp'.op = "list_categories" =>
             \A k \in DOMAIN resp'.body :
                \E c \in categories : c.id = resp'.body[k].id /\ c.user_id = resp'.user
       /\ (resp'.op = "create_category" /\ resp'.code = 201) =>
             \E c \in categories' : c.id = resp'.id /\ c.user_id = resp'.user
       /\ Imported =>
             /\ categories' = categories
             /\ \A t \in txs' \ txs :
                   t.category_id # NULL =>
                      \E c \in categories :
                         /\ c.id = t.category_id
                         /\ c.user_id = t.user_id
                         /\ \E i \in DOMAIN resp'.content.rows :
                               Lower(c.name) = Lower(RowCategory(resp'.content.rows[i]))]_vars

\* The import part alone: the category of an inserted row is one of the
\* importing owner with the name of the row, and the import creates none
ImportCategoryOwnerScoped ==
    [][Imported =>
          /\ categories' = categories
          /\ \A t \in txs' \ txs :
                /\ t.category_id # NULL =>
                      \E c \in categories :
                         /\ c.id = t.category_id
                         /\ c.user_id = t.user_id
                         /\ \E i \in DOMAIN resp'.content.rows :
                               Lower(c.name) = Lower(RowCategory(resp'.content.rows[i]))
                /\ t.category_id = NULL =>
                      \A c \in categories, i \in DOMAIN resp'.content.rows :
                         c.user_id = t.user_id
                            => Lower(c.name) # Lower(RowCategory(resp'.content.rows[i]))]_vars

\* C29: when header inference succeeds for a row, the columns it resolves
\* for date, description and amount are three different columns of the row:
\* no header is assigned to two logical fields.
C29_DistinctColumns ==
    [][Imported =>
          \A i \in DOMAIN resp'.content.rows :
             \E cols \in {Columns[resp'.content.rows[i]]} :
                (\A k \in 1..3 : cols[k] # 0)
                   => cols[1] # cols[2] /\ cols[1] # cols[3] /\ cols[2] # cols[3]]_vars

\* The transactions created from the review item of an import that left one
\* row for review
CreatedFor(rows, item) ==
    {t \in rows : t.source = "import_review" /\ t.import_id = item.import_id}

\* C30: when two confirm requests for the same pending review item run at
\* the same time, interleaved between the lookup of the pending item and
\* the commit, at most one transaction is created for the item, the item
\* reaches one terminal state and is not written again, and neither request
\* fails with an unhandled error.
C30_ConfirmRace ==
    [][/\ \A i \in DOMAIN items' : Cardinality(CreatedFor(txs', items'[i])) <= 1
       /\ \A i \in DOMAIN items : items[i].status # "pending" => items'[i] = items[i]
       /\ resp'.op = "confirm_pending_row" => resp'.code \in {200, 404}]_vars

====
